---- MODULE Spec2Model ----
(***************************************************************************)
(* A model of the form-analysis pipeline of modern-genome:                 *)
(*   src/forms-analyzer-pro-nigo/forms-analyzer-pro-nigo/form_analyzer.py  *)
(*   (analyze_one and the detectors and scorers it calls), and             *)
(*   src/main.py (PDFFormAnalyzer.analyze_form's error result, and the     *)
(*   steps of concurrent analyze_form calls on the service's analyzer).    *)
(*                                                                         *)
(* Text is a sequence of word tokens; a regular expression of the source   *)
(* of the form \b(a|b c)\b is the set of token phrases it accepts, and it  *)
(* matches a text that holds one of them as a contiguous run of tokens.    *)
(* Numbers with a fractional part (the complexity score, the per-page      *)
(* graphics averages) are kept in fixed point. The text normalization is   *)
(* modelled on sequences of characters.                                    *)
(***************************************************************************)
EXTENDS Integers, Sequences, FiniteSets, TLC

VARIABLES
    scoreIn,    \* the arguments of calculate_nigo_score / calculate_complexity
    scoreOut,   \* what the two scorers returned for scoreIn
    hostIn,     \* the arguments of host_domain_info
    hostOut,    \* the record host_domain_info returned for hostIn
    doc,        \* the facts the PDF decoding layer supplies for one document
    results,    \* analyze_one's result of each run over doc
    formResult, \* PDFFormAnalyzer.analyze_form's result for doc (main.py)
    analyzer,   \* the service's one PDFFormAnalyzer instance (main.py)
    threads,    \* the analyze_form calls in progress on it, one per request
    detIn,      \* the arguments of a detector called on its own
    detOut,     \* what the detector returned for detIn
    domain_rate_limits, \* the rate-limit record of every tracked domain (main.py)
    now,        \* what time.time() returns
    sent,       \* the times of the requests sent to each domain within the last window
    downloading, \* the download_pdf call in progress and how the last one ended
    analyzed_forms, \* the results the dashboard lists, newest first (main.py)
    handlers, \* the /analyze and /batch_analyze requests in progress, one per server thread
    route_log, \* how many requests were received and how many results inserted
    crawl \* the /crawl request or crawl_playwright call in progress, with the pages it fetched

vars == <<scoreIn, scoreOut, hostIn, hostOut, doc, results,
          formResult, analyzer, threads, detIn, detOut,
          domain_rate_limits, now, sent, downloading, analyzed_forms,
          handlers, route_log, crawl>>

\* ------------------------------------------------------------------------
\* Generic helpers
\* ------------------------------------------------------------------------

Min(a, b) == IF a <= b THEN a ELSE b

Max(a, b) == IF a >= b THEN a ELSE b

\* All sequences over S of length 0..n.
SeqUpTo(S, n) == UNION {[1..k -> S] : k \in 0..n}

\* The set of the elements of a sequence.
Range(s) == {s[i] : i \in 1..Len(s)}

\* re.search of one phrase: the phrase occurs as a contiguous run of tokens.
ContainsPhrase(text, phrase) ==
    \E i \in 1..(Len(text) - Len(phrase) + 1) :
        SubSeq(text, i, i + Len(phrase) - 1) = phrase

\* re.search of an alternation: one of its phrases occurs.
Matches(text, phrases) == \E p \in phrases : ContainsPhrase(text, p)

\* str.lower() on the severities, rule ids and classes the model holds.
Lower(s) ==
    CASE s = "HIGH" -> "high"
      [] s = "MEDIUM" -> "medium"
      [] s = "LOW" -> "low"
      [] s = "SSN" -> "ssn"
      [] s = "Signature" -> "signature"
      [] s = "Date" -> "date"
      [] s = "DOB" -> "dob"
      [] OTHER -> s

\* str.lower() of a text, word by word.
LowerText(t) == [i \in 1..Len(t) |-> Lower(t[i])]

\* Substring tests (`k in s`) may start or end inside a word: for the words
\* of the model, what each ends with, starts with and holds besides itself.
Suffixes(l) ==
    CASE l = "myirs" -> {"myirs", "irs"}
      [] l = "jpmorganchase" -> {"jpmorganchase", "chase"}
      [] l = "attach" -> {"attach", "ach"}
      [] l = "mycdn" -> {"mycdn", "cdn"}
      [] OTHER -> {l}

Prefixes(l) ==
    CASE l = "government" -> {"government", "gov"}
      [] l = "signature" -> {"signature", "sign"}
      [] l = "signed" -> {"signed", "sign"}
      [] l = "attached" -> {"attached", "attach"}
      [] l = "attachment" -> {"attachment", "attach"}
      [] OTHER -> {l}

Infixes(l) ==
    Suffixes(l) \cup Prefixes(l)
      \cup (CASE l = "akamaihd" -> {"akamai"}
              [] l = "first" -> {"irs"}
              [] l = "notification" -> {"if"}
              [] l \in {"attached", "attachment"} -> {"ach"}
              [] OTHER -> {})

\* `word in text` for a word without spaces: some token holds it.
TextHasWord(text, w) == \E i \in 1..Len(text) : w \in Infixes(text[i])

\* ------------------------------------------------------------------------
\* NIGO score (calculate_nigo_score)
\* ------------------------------------------------------------------------

HIGH_RISK_FIELDS ==
    {"ssn", "dob", "routing", "account", "email", "phone", "zip", "state",
     "tin", "ein"}

\* RULE_WEIGHTS.get(rule, 0)
RULE_WEIGHTS(rule) ==
    CASE rule = "REQ-001" -> 5
      [] rule = "FMT-001" -> 8
      [] rule = "SIG-002" -> 4
      [] rule = "COND-003" -> 6
      [] rule = "ROLE-001" -> 6
      [] rule = "THRD-001" -> 6
      [] OTHER -> 0

\* SEVERITY_WEIGHTS.get(sev, 0)
SEVERITY_WEIGHTS(sev) ==
    CASE sev = "high" -> 20
      [] sev = "medium" -> 12
      [] sev = "low" -> 6
      [] OTHER -> 0

\* The keys of the PII flag dictionary (PII_PATTERNS).
PII_KEYS == {"ssn", "dob", "tin", "ein", "dl", "acct", "addr", "phone", "email"}

\* dict.get(key) of the PII flags: a missing key is falsy.
PiiGet(pii, key) == IF key \in DOMAIN pii THEN pii[key] ELSE FALSE

\* The body of the for loop of calculate_nigo_score, from finding i on:
\* <<score, high_mask_req>> after the last finding.
RECURSIVE NigoLoop(_, _, _, _)
NigoLoop(nigo_risks, i, score, high_mask_req) ==
    IF i > Len(nigo_risks) THEN <<score, high_mask_req>>
    ELSE LET r == nigo_risks[i]
             sev == Lower(r.severity)
             rule == r.rule_id
             fcl == Lower(r.field_class)
             add == SEVERITY_WEIGHTS(sev) + RULE_WEIGHTS(rule)
                    + (IF fcl \in HIGH_RISK_FIELDS THEN 5 ELSE 0)
             hit == rule \in {"FMT-001", "REQ-001"} /\ fcl \in HIGH_RISK_FIELDS
         IN NigoLoop(nigo_risks, i + 1, score + add,
                     IF hit THEN high_mask_req + 1 ELSE high_mask_req)

\* A slip the score must not survive: the PII bonus once per high-risk
\* REQ-001/FMT-001 finding instead of once per document.
calculate_nigo_score_bonus_each(nigo_risks, pii_flags) ==
    LET acc == NigoLoop(nigo_risks, 1, 0, 0)
        score == IF PiiGet(pii_flags, "any_pii") /\ acc[2] > 0
                 THEN acc[1] + 10 * acc[2] ELSE acc[1]
    IN Min(score, 100)

calculate_nigo_score(nigo_risks, pii_flags) ==
    LET acc == NigoLoop(nigo_risks, 1, 0, 0)
        score == IF PiiGet(pii_flags, "any_pii") /\ acc[2] > 0
                 THEN acc[1] + 10 ELSE acc[1]
    IN Min(score, 100)

\* ------------------------------------------------------------------------
\* Complexity score (calculate_complexity), in tenths of a point
\* ------------------------------------------------------------------------

\* The (key, weight) list of the PII loop; "routing" is asked for although
\* detect_pii never sets it.
PII_COMPLEXITY_WEIGHTS ==
    <<<<"ssn", 3>>, <<"dob", 2>>, <<"acct", 3>>, <<"routing", 3>>,
      <<"email", 1>>, <<"phone", 1>>, <<"addr", 1>>, <<"tin", 2>>, <<"ein", 2>>>>

RECURSIVE PiiComplexity(_, _)
PiiComplexity(pii, i) ==
    IF i > Len(PII_COMPLEXITY_WEIGHTS) THEN 0
    ELSE (IF PiiGet(pii, PII_COMPLEXITY_WEIGHTS[i][1])
          THEN PII_COMPLEXITY_WEIGHTS[i][2] ELSE 0)
         + PiiComplexity(pii, i + 1)

HIGH_COORDINATION_ROLES == {"Physician", "Attorney", "Financial Advisor"}

\* min(fields.get("total", 0) * 0.3, 15), in tenths. One point for each
\* field instead of 0.3 would put a 40-field form at the cap.
FieldTerm_point_each(total) == Min(total * 10, 150)

FieldTerm(total) == Min(total * 3, 150)

\* The third-party tiers. A flat +4 for any number of third parties would
\* lose the tiers.
ThirdPartyTier_flat(tpr) == IF tpr >= 1 THEN 40 ELSE 0

ThirdPartyTier(tpr) ==
    IF tpr >= 3 THEN 120 ELSE IF tpr = 2 THEN 80 ELSE IF tpr = 1 THEN 40 ELSE 0

\* The running total of calculate_complexity before the final min and int,
\* in tenths: fields.total * 0.3 is fields.total * 3 tenths, and the per-page
\* graphics averages are in hundredths.
ComplexityTenths(text, fields, pages, sigs, extra) ==
    LET tpr == extra.third_party_count
        rg == extra.radio_groups
        draw_pp == extra.gfx.drawings_per_page
        img_pp == extra.gfx.images_per_page
        deps == extra.dependencies
    IN  Min(pages * 2, 10) * 10
      + FieldTerm(fields.total)
      + (IF sigs.signature_count > 0 THEN 40 ELSE 0)
      + (IF sigs.witness_signature_count > 0 THEN 100 ELSE 0)
      + (IF sigs.notarized = "Yes" THEN 120 ELSE 0)
      + (IF TextHasWord(text, "attach") THEN 30 ELSE 0)
      + (IF extra.attachments_req # <<>>
         THEN Min(8, 2 + 2 * Len(extra.attachments_req)) * 10 ELSE 0)
      + (IF extra.has_js THEN 40 ELSE 0)
      + (IF extra.has_js /\ rg >= 2 THEN 30 ELSE 0)
      + Min(18, 3 * Cardinality(Range(extra.roles))) * 10
      + ThirdPartyTier(tpr)
      + (IF \E r \in HIGH_COORDINATION_ROLES : r \in Range(extra.third_party_roles)
         THEN 40 ELSE 0)
      + PiiComplexity(extra.pii, 1) * 10
      + (IF rg >= 1 THEN Min(60, 20 + 10 * rg) ELSE 0)
      + (IF draw_pp >= 3000 THEN 40 ELSE IF draw_pp >= 1500 THEN 30
         ELSE IF draw_pp >= 500 THEN 10 ELSE 0)
      + (IF img_pp >= 200 THEN 30 ELSE IF img_pp >= 100 THEN 10 ELSE 0)
      + (IF extra.xfa_hint THEN 40 ELSE 0)
      + (IF extra.deadlines >= 1 THEN 20 ELSE 0)
      + (IF deps >= 2 THEN 30 ELSE IF deps = 1 THEN 10 ELSE 0)
      + (IF extra.domain_mismatch THEN 20 ELSE 0)

\* A slip the score must not survive: the final min(score, 100) left out.
calculate_complexity_unclamped(text, fields, pages, sigs, extra) ==
    ComplexityTenths(text, fields, pages, sigs, extra) \div 10

\* int(min(score, 100))
calculate_complexity(text, fields, pages, sigs, extra) ==
    Min(ComplexityTenths(text, fields, pages, sigs, extra), 1000) \div 10

\* ------------------------------------------------------------------------
\* Findings
\* ------------------------------------------------------------------------

\* One entry of nigo_risks. page is 0 where the source has None.
Finding(rule, sev, page, fname, fclass, issue, evidence) ==
    [rule_id |-> rule, severity |-> sev, page |-> page, field_name |-> fname,
     field_class |-> fclass, issue |-> issue, evidence |-> evidence]

\* detect_pii's dictionary for the set of keys whose pattern matched.
PiiFlags(hit) ==
    [k \in PII_KEYS \cup {"any_pii"} |->
        IF k = "any_pii" THEN hit # {} ELSE k \in hit]

\* ------------------------------------------------------------------------
\* The scorers on their own: inputs drawn from bounded sets
\* ------------------------------------------------------------------------

\* The longest findings list the scorer is run on.
MaxFindings == 4

\* The largest page count the complexity scorer is run on.
MaxScorePages == 6

\* The findings the scorer is run on: what the rule pass and analyze_one emit
\* (by rule, severity and field class), and the SYS-ERR finding, whose
\* severity and rule id have no weight.
FindingKinds ==
    {Finding("REQ-001", "high", 1, <<"f">>, "ssn", "", <<>>),
     Finding("REQ-001", "high", 1, <<"f">>, "signature", "", <<>>),
     Finding("FMT-001", "medium", 1, <<"f">>, "ssn", "", <<>>),
     Finding("FMT-001", "medium", 1, <<"f">>, "date", "", <<>>),
     Finding("SIG-002", "low", 1, <<"f">>, "signature", "", <<>>),
     Finding("COND-003", "medium", 1, <<"f">>, "text", "", <<>>),
     Finding("ROLE-001", "medium", 0, <<>>, "signature", "", <<>>),
     Finding("SYS-ERR", "info", 0, <<>>, "", "", <<>>)}

NigoInputs ==
    {[kind |-> "nigo", nigo_risks |-> fs, pii_flags |-> PiiFlags(hit)] :
        fs \in SeqUpTo(FindingKinds, MaxFindings), hit \in {{}, {"ssn"}}}

\* The detector outputs the complexity scorer is run on: every subset of the
\* signals switched on, each at its first or at its top tier.
ComplexitySignals ==
    {"sig", "witness", "notary", "attach", "js", "radio", "roles",
     "third", "pii", "gfx", "misc"}

ComplexityInput(pages, total, on, top) ==
    [kind |-> "complexity",
     text |-> IF "attach" \in on THEN <<"attach">> ELSE <<>>,
     fields |-> [total |-> total],
     pages |-> pages,
     sigs |-> [signature_count |-> IF "sig" \in on THEN 2 ELSE 0,
               witness_signature_count |-> IF "witness" \in on THEN 1 ELSE 0,
               notarized |-> IF "notary" \in on THEN "Yes" ELSE "No"],
     extra |->
       [pii |-> PiiFlags(IF "pii" \notin on THEN {}
                         ELSE IF top THEN PII_KEYS ELSE {"email"}),
        roles |-> IF "roles" \notin on THEN <<>>
                  ELSE IF top THEN <<"applicant", "co_owner", "guardian", "spouse",
                                     "officer", "witness", "notary">>
                  ELSE <<"Unspecified Signer">>,
        attachments_req |-> IF "attach" \notin on THEN <<>>
                            ELSE IF top THEN <<"a", "b", "c", "d">> ELSE <<"a">>,
        radio_groups |-> IF "radio" \notin on THEN 0 ELSE IF top THEN 5 ELSE 1,
        gfx |-> [images_per_page |-> IF "gfx" \notin on THEN 0
                                     ELSE IF top THEN 200 ELSE 100,
                 drawings_per_page |-> IF "gfx" \notin on THEN 0
                                       ELSE IF top THEN 3000 ELSE 500],
        xfa_hint |-> "misc" \in on,
        has_js |-> "js" \in on,
        deadlines |-> IF "misc" \in on THEN 1 ELSE 0,
        dependencies |-> IF "misc" \notin on THEN 0 ELSE IF top THEN 2 ELSE 1,
        domain_mismatch |-> "misc" \in on /\ top,
        third_party_count |-> IF "third" \notin on THEN 0 ELSE IF top THEN 3 ELSE 1,
        third_party_roles |-> IF "third" \notin on THEN <<>>
                              ELSE IF top THEN <<"Witness", "Physician", "Attorney">>
                              ELSE <<"Witness">>]]

\* One detector output swept through its tiers over a quiet document and over
\* a document with every signal at its first tier.
ThirdPartyLists ==
    {<<>>, <<"Witness">>, <<"Witness", "Employer/HR">>, <<"Physician">>,
     <<"Witness", "Attorney">>, <<"Witness", "Employer/HR", "Court/Clerk">>,
     <<"Witness", "Employer/HR", "Court/Clerk", "Financial Advisor">>}

RoleLists ==
    {<<>>, <<"Applicant">>, <<"Applicant", "Applicant">>, <<"Applicant", "Spouse">>,
     <<"Applicant", "Spouse", "Notary", "Witness", "Guardian">>,
     <<"Applicant", "Spouse", "Notary", "Witness", "Guardian", "Officer">>,
     <<"Applicant", "Spouse", "Notary", "Witness", "Guardian", "Officer", "Trustee">>}

ComplexitySweeps ==
    LET bases == {ComplexityInput(1, 7, {}, FALSE),
                  ComplexityInput(3, 7, ComplexitySignals \ {"third", "roles", "radio", "misc"}, FALSE)}
    IN UNION {
         {[b EXCEPT !.extra.third_party_roles = tp,
                    !.extra.third_party_count = Len(tp)] : tp \in ThirdPartyLists}
         \cup {[b EXCEPT !.extra.roles = rs] : rs \in RoleLists}
         \cup {[b EXCEPT !.extra.radio_groups = rg] : rg \in 0..6}
         \cup {[b EXCEPT !.extra.dependencies = n, !.extra.deadlines = dl,
                         !.extra.domain_mismatch = mm] :
                  n \in 0..3, dl \in 0..2, mm \in BOOLEAN}
         \cup {[b EXCEPT !.fields.total = t, !.pages = pg] :
                  t \in {1, 7, 49, 50, 51}, pg \in 0..MaxScorePages}
         : b \in bases}

ComplexityInputs ==
    {ComplexityInput(pages, total, on, top) :
        pages \in 0..MaxScorePages, total \in {0, 40, 60},
        on \in SUBSET ComplexitySignals, top \in BOOLEAN}
    \cup ComplexitySweeps

NoScore == [kind |-> "none"]

ScoreIdle == scoreIn = NoScore /\ scoreOut = NoScore

\* calculate_nigo_score(nigo_risks, pii) as analyze_one calls it.
CalcNigo ==
    /\ scoreIn.kind = "nigo"
    /\ scoreOut = NoScore
    /\ scoreOut' = [kind |-> "nigo",
                    nigo_score |-> calculate_nigo_score(scoreIn.nigo_risks,
                                                        scoreIn.pii_flags)]
    /\ UNCHANGED <<scoreIn, hostIn, hostOut, doc, results, formResult, analyzer, threads, detIn, detOut, domain_rate_limits, now, sent, downloading, analyzed_forms, handlers, route_log, crawl>>

\* calculate_complexity(text, fields, pages, sigs, extra) as analyze_one calls it.
CalcComplexity ==
    /\ scoreIn.kind = "complexity"
    /\ scoreOut = NoScore
    /\ scoreOut' = [kind |-> "complexity",
                    complexity_score |->
                        calculate_complexity(scoreIn.text, scoreIn.fields,
                                             scoreIn.pages, scoreIn.sigs,
                                             scoreIn.extra)]
    /\ UNCHANGED <<scoreIn, hostIn, hostOut, doc, results, formResult, analyzer, threads, detIn, detOut, domain_rate_limits, now, sent, downloading, analyzed_forms, handlers, route_log, crawl>>

\* ------------------------------------------------------------------------
\* Host against issuer (host_domain_info)
\*
\* A host or a registry domain is its sequence of labels ("www.irs.gov" is
\* <<"www", "irs", "gov">>). The source tests `d in host` on the strings, so
\* a match may start or end inside a label (Suffixes, Prefixes, Infixes).
\* ------------------------------------------------------------------------

\* `d in host` for a dotted name d.
HostContains(host, d) ==
    IF Len(d) = 1
    THEN \E i \in 1..Len(host) : d[1] \in Infixes(host[i])
    ELSE \E i \in 1..(Len(host) - Len(d) + 1) :
            /\ d[1] \in Suffixes(host[i])
            /\ \A j \in 2..(Len(d) - 1) : host[i + j - 1] = d[j]
            /\ d[Len(d)] \in Prefixes(host[i + Len(d) - 1])

\* The host is under the top-level domain gov.
HostHasDotGov_tld(host) == Len(host) > 0 /\ host[Len(host)] = "gov"

\* `".gov" in host`
HostHasDotGov(host) == \E i \in 2..Len(host) : "gov" \in Prefixes(host[i])

\* KNOWN_CDNS, and `any(k in host for k in KNOWN_CDNS)`
KNOWN_CDNS_DOTTED ==
    {<<"blob", "core", "windows", "net">>, <<"azureedge", "net">>,
     <<"cloudfront", "net">>}

HostOnCdn(host) ==
    \/ \E d \in KNOWN_CDNS_DOTTED : HostContains(host, d)
    \/ \E i \in 1..Len(host) : {"akamai", "fastly"} \cap Infixes(host[i]) # {}
    \/ \E i \in 1..(Len(host) - 1) : "cdn" \in Suffixes(host[i])

\* The public suffixes tldextract knows among the hosts of the model: the
\* number of labels of the host's public suffix (0: none).
SuffixLabels(host) ==
    IF Len(host) >= 2 /\ SubSeq(host, Len(host) - 1, Len(host)) = <<"co", "uk">>
    THEN 2
    ELSE IF Len(host) >= 1 /\ host[Len(host)] \in {"com", "gov", "net", "org", "uk"}
    THEN 1
    ELSE 0

Last(s, n) == SubSeq(s, Len(s) - n + 1, Len(s))

\* eTLD+1: tldextract's domain.suffix when the library is there and the host
\* has a public suffix, else the last two labels.
HostRoot(host, has_tldextract) ==
    IF has_tldextract /\ host # <<>>
    THEN LET n == SuffixLabels(host)
         IN IF n = 0 THEN host
            ELSE IF Len(host) > n THEN Last(host, n + 1)
            ELSE <<"">> \o host
    ELSE IF Len(host) >= 2 THEN Last(host, 2) ELSE host

\* brand.split()[0].lower()
FirstWord(brand) ==
    CASE brand = "Fidelity Investments" -> "fidelity"
      [] brand = "Charles Schwab" -> "charles"
      [] brand = "Vanguard" -> "vanguard"
      [] brand = "JPMorgan Chase" -> "jpmorgan"
      [] brand = "Cigna" -> "cigna"
      [] brand = "Aetna" -> "aetna"
      [] brand = "UnitedHealthcare" -> "unitedhealthcare"
      [] brand = "GSA" -> "gsa"
      [] brand = "USCIS" -> "uscis"
      [] brand = "IRS" -> "irs"
      [] brand = "SSA" -> "ssa"
      [] brand = "U.S. Bank" -> "u.s."
      [] brand = "PNC" -> "pnc"
      [] brand = "Bank of America" -> "bank"
      [] brand = "Morgan Stanley" -> "morgan"
      [] brand = "Acme Corp" -> "acme"
      [] OTHER -> brand

\* The brand registry is an ordered dictionary: a sequence of entries
\* [brand, doms], one per brand, in insertion order.
BrandEntry(brand, doms) == [brand |-> brand, doms |-> doms]

\* brand_map.get(issuer, [])
BrandDomains(brand_map, issuer) ==
    IF \E i \in 1..Len(brand_map) : brand_map[i].brand = issuer
    THEN brand_map[CHOOSE i \in 1..Len(brand_map) : brand_map[i].brand = issuer].doms
    ELSE <<>>

\* ROOT_TO_BRAND as the two nested loops build it: a later brand that lists
\* the same domain overwrites an earlier one.
RootInIndex(brand_map, root) ==
    \E i \in 1..Len(brand_map) : root \in Range(brand_map[i].doms)

ROOT_TO_BRAND(brand_map, root) ==
    LET last == CHOOSE i \in 1..Len(brand_map) :
                  /\ root \in Range(brand_map[i].doms)
                  /\ \A j \in (i + 1)..Len(brand_map) :
                        root \notin Range(brand_map[j].doms)
    IN brand_map[last].brand

Unresolved(issuer) == issuer = "" \/ issuer = "Unknown Entity"

\* The first brand, in registry order, whose first word is in the text.
FirstBrandIn(brand_map, text) ==
    LET hits == {i \in 1..Len(brand_map) :
                    TextHasWord(text, FirstWord(brand_map[i].brand))}
    IN IF hits = {} THEN ""
       ELSE brand_map[CHOOSE i \in hits : \A j \in hits : i <= j].brand

\* The metadata loop: meta is a sequence of <<key, value tokens>>. Returns
\* <<issuer, brand_meta_hits>>; the issuer, once set, is not set again.
RECURSIVE MetaBrandLoop(_, _, _, _, _, _)
MetaBrandLoop(brand_map, meta, k, b, issuer, hits) ==
    IF k > Len(meta) THEN <<issuer, hits>>
    ELSE IF b > Len(brand_map)
    THEN MetaBrandLoop(brand_map, meta, k + 1, 1, issuer, hits)
    ELSE LET brand == brand_map[b].brand
             hit == TextHasWord(meta[k][2], FirstWord(brand))
         IN MetaBrandLoop(brand_map, meta, k, b + 1,
                IF hit /\ Unresolved(issuer) THEN brand ELSE issuer,
                IF hit THEN Append(hits, <<brand, meta[k][1]>>) ELSE hits)

gov_brands == {"GSA", "USCIS", "IRS", "SSA"}

RECURSIVE Dedup(_)
Dedup(s) ==
    IF s = <<>> THEN <<>>
    ELSE LET rest == Dedup(SubSeq(s, 1, Len(s) - 1))
         IN IF s[Len(s)] \in Range(rest) THEN rest ELSE Append(rest, s[Len(s)])

Reverse(s) == [i \in 1..Len(s) |-> s[Len(s) + 1 - i]]

\* The order in which Python walks set(doms): it depends on the process's
\* string hash seed, so it is one of the orders the build can produce.
SetOrder(doms, seed) == IF seed = 0 THEN Dedup(doms) ELSE Reverse(Dedup(doms))

\* The last statement of host_domain_info: the host's root is in the reverse
\* index under the resolved issuer.
RootOverride(brand_map, host_root, issuer) ==
    RootInIndex(brand_map, host_root) /\ ROOT_TO_BRAND(brand_map, host_root) = issuer

\* host_domain_info(url, entity_name, text, meta, brand_map); url is the
\* lower-cased netloc of the URL, and env holds what the process adds:
\* whether tldextract is installed and the hash seed.
host_domain_info(url, entity_name, text, meta, brand_map, env) ==
    LET host == url
        host_root == HostRoot(host, env.tldextract)
        issuer0 == entity_name
        \* issuer still unknown: the first brand named in the text
        text_hit == IF Unresolved(issuer0) THEN FirstBrandIn(brand_map, text) ELSE ""
        issuer1 == IF text_hit # "" THEN text_hit ELSE issuer0
        \* brands named in the metadata values
        metaLoop == MetaBrandLoop(brand_map, meta, 1, 1, issuer1, <<>>)
        issuer2 == metaLoop[1]
        brand_meta_hits == metaLoop[2]
        \* still unknown: the brand the host's root is registered to
        issuer == IF Unresolved(issuer2) /\ RootInIndex(brand_map, host_root)
                  THEN ROOT_TO_BRAND(brand_map, host_root) ELSE issuer2
        issuer_domains == BrandDomains(brand_map, issuer)
        matched == SelectSeq(SetOrder(issuer_domains, env.seed),
                             LAMBDA d : HostContains(host, d) \/ d = host_root)
        govOff == issuer \in gov_brands /\ host # <<>> /\ ~HostHasDotGov(host)
        sum == (IF matched # <<>> THEN 60 ELSE 0)
             + (IF host_root \in Range(issuer_domains) /\ matched = <<>> THEN 25 ELSE 0)
             + (IF text_hit # "" THEN 15 ELSE 0)
             + (IF brand_meta_hits # <<>> THEN 10 ELSE 0)
             - (IF HostOnCdn(host) THEN 15 ELSE 0)
             + (IF govOff THEN 10 ELSE 0)
        clamped == Max(0, Min(100, sum))
        mismatch0 == clamped >= 55 /\ (matched = <<>> \/ govOff)
        reason0 == IF clamped >= 55 /\ govOff
                   THEN "Government issuer on non-.gov host."
                   ELSE IF clamped >= 55 /\ matched = <<>>
                   THEN "Host does not match issuer domains."
                   ELSE ""
        override == RootOverride(brand_map, host_root, issuer)
        mismatch == IF override THEN FALSE ELSE mismatch0
        reason == IF override THEN "Host root aligns with issuer." ELSE reason0
    IN [host_domain |-> host,
        host_root |-> host_root,
        issuer_guess |-> IF issuer = "" THEN "Unknown" ELSE issuer,
        issuer_domains_matched |-> matched,
        brand_text_hits |-> IF text_hit # "" THEN <<text_hit>> ELSE <<>>,
        brand_meta_hits |-> brand_meta_hits,
        confidence |-> IF override THEN Max(clamped, 75) ELSE clamped,
        mismatch |-> mismatch,
        reason |-> IF reason # "" THEN reason
                   ELSE IF ~mismatch THEN "OK" ELSE "Mismatch"]

\* ------------------------------------------------------------------------
\* Text detectors of analyze_one
\*
\* The text is what extract_text returns: lower-case, single-spaced, here as
\* its sequence of words.
\* ------------------------------------------------------------------------

\* Where re.search finds the leftmost match of an alternation: the first
\* token of the match, 0 if there is none.
FirstMatch(text, phrases) ==
    LET at == {i \in 1..Len(text) :
                  \E p \in phrases : i + Len(p) - 1 <= Len(text)
                                     /\ SubSeq(text, i, i + Len(p) - 1) = p}
    IN IF at = {} THEN 0 ELSE CHOOSE i \in at : \A j \in at : i <= j

PII_PATTERNS(k) ==
    CASE k = "ssn" -> {<<"ssn">>, <<"social", "security", "number">>}
      [] k = "dob" -> {<<"date", "of", "birth">>, <<"dob">>}
      [] k = "tin" -> {<<"tin">>, <<"taxpayer", "identification">>}
      [] k = "ein" -> {<<"employer", "identification", "number">>, <<"ein">>}
      [] k = "dl" -> {<<"driver's", "license">>, <<"drivers", "license">>,
                      <<"state", "id">>}
      [] k = "acct" -> {<<"account", "number">>, <<"routing", "number">>, <<"iban">>}
      [] k = "addr" -> {<<"address">>, <<"street">>, <<"city">>, <<"state">>, <<"zip">>}
      [] k = "phone" -> {<<"phone">>, <<"telephone">>, <<"cell">>}
      [] k = "email" -> {<<"email">>}

detect_pii(text) == PiiFlags({k \in PII_KEYS : Matches(text, PII_PATTERNS(k))})

\* ATTACHMENT_HINTS in the order sorted() gives the pattern strings.
ATTACHMENT_HINTS ==
    <<[pat |-> "(account statement|bank statement)",
       phrases |-> {<<"account", "statement">>, <<"bank", "statement">>}],
      [pat |-> "(driver'?s license|passport)",
       phrases |-> {<<"driver's", "license">>, <<"drivers", "license">>, <<"passport">>}],
      [pat |-> "(include|provide) (a|an|the)? (copy|document|proof)",
       phrases |-> {<<v, n>> : v \in {"include", "provide"},
                               n \in {"copy", "document", "proof"}}
                   \cup {<<v, a, n>> : v \in {"include", "provide"},
                                        a \in {"a", "an", "the"},
                                        n \in {"copy", "document", "proof"}}],
      [pat |-> "attach(ed)?", phrases |-> {<<"attach">>, <<"attached">>}],
      [pat |-> "photo id", phrases |-> {<<"photo", "id">>}],
      [pat |-> "supporting (documents|documentation)",
       phrases |-> {<<"supporting", "documents">>, <<"supporting", "documentation">>}],
      [pat |-> "voided check", phrases |-> {<<"voided", "check">>}]>>

\* sorted(set(hits)): the patterns that match, in sorted order.
detect_attachment_requirements(text) ==
    LET hit == SelectSeq(ATTACHMENT_HINTS, LAMBDA h : Matches(text, h.phrases))
    IN [i \in 1..Len(hit) |-> hit[i].pat]

\* ROLE_HINTS, in dictionary order.
ROLE_HINTS ==
    <<[role |-> "applicant",
       phrases |-> {<<w, "signature">> : w \in {"applicant", "borrower", "member"}}],
      [role |-> "co_owner",
       phrases |-> {<<w, "signature">> :
                       w \in {"co-owner", "coowner", "co-applicant", "coapplicant"}}
                   \cup {<<"co", w, "signature">> : w \in {"owner", "applicant"}}],
      [role |-> "guardian",
       phrases |-> {<<w, "signature">> : w \in {"parent", "guardian"}}],
      [role |-> "spouse", phrases |-> {<<"spouse", "signature">>}],
      [role |-> "officer",
       phrases |-> {<<"officer", "signature">>, <<"authorized", "signer", "signature">>}],
      [role |-> "witness", phrases |-> {<<"witness", "signature">>}],
      [role |-> "notary",
       phrases |-> {<<"notary", "public">>, <<"notary", "signature">>}]>>

detect_roles(text) ==
    LET hit == SelectSeq(ROLE_HINTS, LAMBDA h : Matches(text, h.phrases))
    IN [i \in 1..Len(hit) |-> hit[i].role]

\* THIRD_PARTY_PATTERNS, in dictionary order.
THIRD_PARTY_PATTERNS ==
    <<[role |-> "Witness", phrases |-> {<<"witness">>}],
      [role |-> "Physician",
       phrases |-> {<<"physician">>, <<"doctor">>, <<"md">>, <<"do">>}],
      [role |-> "Financial Advisor",
       phrases |-> {<<"financial", "advisor">>, <<"advisor">>, <<"adviser">>,
                    <<"ria">>, <<"broker-dealer">>, <<"broker">>}],
      [role |-> "Attorney",
       phrases |-> {<<"attorney">>, <<"lawyer">>, <<"counsel">>, <<"esq">>, <<"esq.">>}],
      [role |-> "Guardian/POA",
       phrases |-> {<<"guardian">>, <<"conservator">>, <<"power", "of", "attorney">>,
                    <<"poa">>, <<"agent", "under", "poa">>}],
      [role |-> "Employer/HR",
       phrases |-> {<<"employer">>, <<"human", "resources">>, <<"hr", "department">>,
                    <<"hr", "rep">>, <<"supervisor">>}],
      [role |-> "Court/Clerk",
       phrases |-> {<<"court", "clerk">>, <<"clerk", "of", "court">>, <<"court">>}]>>

CORE_SIGNER_TERMS ==
    {"Applicant", "Borrower", "Member", "Customer", "Account Holder", "Co-owner",
     "Co-applicant", "Spouse"}

\* detect_third_parties: the roles whose pattern matches, without core signer
\* roles and repeats, and the first six evidence snippets. A snippet is the
\* window of 40 characters either side of the match; it is kept as the
\* role's pattern and the token at which the match starts.
\* A slip the evidence cap must not survive: every snippet kept.
detect_third_parties_uncut(text) ==
    LET hit == SelectSeq(THIRD_PARTY_PATTERNS, LAMBDA h : Matches(text, h.phrases))
    IN IF text = <<>> THEN [roles |-> <<>>, evidence |-> <<>>]
       ELSE [roles |-> SelectSeq(Dedup([i \in 1..Len(hit) |-> hit[i].role]),
                                 LAMBDA r : r \notin CORE_SIGNER_TERMS),
             evidence |-> [i \in 1..Len(hit) |->
                             <<hit[i].role, FirstMatch(text, hit[i].phrases)>>]]

detect_third_parties(text) ==
    LET hit == SelectSeq(THIRD_PARTY_PATTERNS, LAMBDA h : Matches(text, h.phrases))
        roles == [i \in 1..Len(hit) |-> hit[i].role]
        ev == [i \in 1..Len(hit) |-> <<hit[i].role, FirstMatch(text, hit[i].phrases)>>]
    IN IF text = <<>> THEN [roles |-> <<>>, evidence |-> <<>>]
       ELSE [roles |-> SelectSeq(Dedup(roles), LAMBDA r : r \notin CORE_SIGNER_TERMS),
             evidence |-> SubSeq(ev, 1, Min(Len(ev), 6))]

NOTARY_PATTERNS ==
    {<<"notary">>, <<"notarized">>, <<"notarization">>, <<"acknowledged">>,
     <<"sworn">>, <<"affirmed">>}

\* One of r"if.*sign", r"when.*sign", r"unless.*sign": the greedy .* runs to
\* the last "sign", so a pattern is found once or not at all.
ConditionalHit(text, w) ==
    \E i, j \in 1..Len(text) :
        i < j /\ w \in Infixes(text[i]) /\ "sign" \in Infixes(text[j])

conditional_signature_count(text) ==
    Cardinality({w \in {"if", "when", "unless"} : ConditionalHit(text, w)})

\* xfa_like_hint: the hint words in json.dumps(meta) or in the text.
xfa_like_hint(text, meta) ==
    LET all == {text} \cup {meta[i][2] : i \in 1..Len(meta)}
                      \cup {<<meta[i][1]>> : i \in 1..Len(meta)}
    IN \E t \in all :
          \/ TextHasWord(t, "xfa")
          \/ TextHasWord(t, "livecycle")
          \/ ContainsPhrase(t, <<"dynamic", "xdp">>)

\* extract_entity_name_financial's table, in dictionary order: the key as a
\* dotted name, and the brand.
ENTITY_DOMAINS ==
    <<<<<<"fidelity">>, "Fidelity Investments">>, <<<<"vanguard">>, "Vanguard">>,
      <<<<"schwab">>, "Charles Schwab">>, <<<<"tdameritrade">>, "TD Ameritrade">>,
      <<<<"morganstanley">>, "Morgan Stanley">>, <<<<"bofa">>, "Bank of America">>,
      <<<<"bankofamerica">>, "Bank of America">>, <<<<"wellsfargo">>, "Wells Fargo">>,
      <<<<"chase">>, "JPMorgan Chase">>, <<<<"usbank">>, "U.S. Bank">>,
      <<<<"pnc">>, "PNC">>, <<<<"cigna">>, "Cigna">>, <<<<"aetna">>, "Aetna">>,
      <<<<"uhc">>, "UnitedHealthcare">>, <<<<"gsa", "gov">>, "GSA">>,
      <<<<"uscis", "gov">>, "USCIS">>, <<<<"irs", "gov">>, "IRS">>,
      <<<<"ssa", "gov">>, "SSA">>>>

\* A key of ENTITY_DOMAINS as the text spells it: one word.
KeyWord(k) ==
    CASE k = <<"gsa", "gov">> -> "gsa.gov"
      [] k = <<"uscis", "gov">> -> "uscis.gov"
      [] k = <<"irs", "gov">> -> "irs.gov"
      [] k = <<"ssa", "gov">> -> "ssa.gov"
      [] OTHER -> k[1]

\* `k in text`
TextHasKey(text, k) == TextHasWord(text, KeyWord(k))

\* The URL is its host: the path of the model's URLs holds no brand key.
extract_entity_name_financial(text, url) ==
    LET inUrl == {i \in 1..Len(ENTITY_DOMAINS) : HostContains(url, ENTITY_DOMAINS[i][1])}
        inText == {i \in 1..Len(ENTITY_DOMAINS) : TextHasKey(text, ENTITY_DOMAINS[i][1])}
    IN IF inUrl # {}
       THEN ENTITY_DOMAINS[CHOOSE i \in inUrl : \A j \in inUrl : i <= j][2]
       ELSE IF inText # {}
       THEN ENTITY_DOMAINS[CHOOSE i \in inText : \A j \in inText : i <= j][2]
       ELSE "Unknown Entity"

\* ------------------------------------------------------------------------
\* Dependencies and deadlines: patterns with optional parts, alternatives of
\* several words, token classes and lazy gaps. A pattern is a sequence of
\* elements, matched with the regex engine's backtracking order.
\* ------------------------------------------------------------------------

\* One word out of S: (a|b)
Tok(S) == [kind |-> "tok", toks |-> S, alts |-> <<>>]

\* An optional word out of S, taken if it can be: (a\s+)?
Opt(S) == [kind |-> "opt", toks |-> S, alts |-> <<>>]

\* Alternatives of one or more words, tried in order: (a|b c)
Alt(alts) == [kind |-> "alt", toks |-> {}, alts |-> alts]

\* .*? : as few words as the rest of the pattern allows
Gap == [kind |-> "gap", toks |-> {}, alts |-> <<>>]

\* [A-Za-z0-9\-_/\.]+ : every word of the model starts with such a character
AnyId == [kind |-> "id", toks |-> {}, alts |-> <<>>]

\* \d{1,2} and \d{1,3} among the words of the model.
NumberWords == {"30"}

\* The words a date is written with (\d{1,2}/\d{1,2}/\d{2,4}, "\d{1,2},",
\* \d{4}) among the words of the model: none.
DateWords == {}

\* The token after the match of pat from element k on, starting at token i;
\* 0 if there is no match.
RECURSIVE MatchEnd(_, _, _, _)
MatchEnd(text, i, pat, k) ==
    IF k > Len(pat) THEN i
    ELSE LET e == pat[k]
             here == i <= Len(text)
         IN CASE e.kind = "tok" ->
                   IF here /\ text[i] \in e.toks
                   THEN MatchEnd(text, i + 1, pat, k + 1) ELSE 0
              [] e.kind = "id" ->
                   IF here THEN MatchEnd(text, i + 1, pat, k + 1) ELSE 0
              [] e.kind = "opt" ->
                   LET with == IF here /\ text[i] \in e.toks
                               THEN MatchEnd(text, i + 1, pat, k + 1) ELSE 0
                   IN IF with # 0 THEN with ELSE MatchEnd(text, i, pat, k + 1)
              [] e.kind = "alt" ->
                   LET end(a) == IF i + Len(e.alts[a]) - 1 <= Len(text)
                                    /\ SubSeq(text, i, i + Len(e.alts[a]) - 1) = e.alts[a]
                                 THEN MatchEnd(text, i + Len(e.alts[a]), pat, k + 1)
                                 ELSE 0
                       ok == {a \in 1..Len(e.alts) : end(a) # 0}
                   IN IF ok = {} THEN 0 ELSE end(CHOOSE a \in ok : \A c \in ok : a <= c)
              [] e.kind = "gap" ->
                   LET ok == {j \in i..(Len(text) + 1) : MatchEnd(text, j, pat, k + 1) # 0}
                   IN IF ok = {} THEN 0
                      ELSE MatchEnd(text, CHOOSE j \in ok : \A c \in ok : j <= c, pat, k + 1)

\* re.finditer: the matches from token i on, leftmost first, none
\* overlapping; each is <<first token, token after the last>>.
RECURSIVE FindIter(_, _, _)
FindIter(text, i, pat) ==
    IF i > Len(text) THEN <<>>
    ELSE LET e == MatchEnd(text, i, pat, 1)
         IN IF e = 0 THEN FindIter(text, i + 1, pat)
            ELSE <<<<i, e>>>> \o FindIter(text, e, pat)

DEPENDENCY_PATTERNS ==
    LET form == Opt({"form"})
    IN <<[rel |-> "with",
          pat |-> <<Tok({"submit", "send", "file", "include"}), Opt({"this"}),
                    Tok({"form"}), Alt(<<<<"with">>, <<"along", "with">>>>),
                    form, AnyId>>],
         [rel |-> "with",
          pat |-> <<Alt(<<<<"accompany">>, <<"in", "conjunction", "with">>,
                          <<"together", "with">>, <<"in", "addition", "to">>>>),
                    form, AnyId>>],
         [rel |-> "before",
          pat |-> <<Alt(<<<<"before">>, <<"prior", "to">>>>),
                    Tok({"submitting", "sending"}), Opt({"this"}), Tok({"form"}),
                    Gap, form, AnyId>>],
         [rel |-> "after",
          pat |-> <<Tok({"after", "following"}),
                    Tok({"approval", "submission", "receipt"}), Tok({"of"}),
                    form, AnyId>>],
         [rel |-> "see",
          pat |-> <<Alt(<<<<"see">>, <<"refer", "to">>>>), Tok({"form", "document"}),
                    AnyId>>]>>

\* re.search(FORM_TOKEN, snippet).group(1).upper() for the words of the
\* model: the form id of the first word of the snippet that holds one, ""
\* (None) if no word does.
FormId(snippet) ==
    IF \E i \in 1..Len(snippet) : snippet[i] = "w-9" THEN "W-9" ELSE ""

\* The matches of every pattern, in pattern order, as dependency records.
RECURSIVE DependencyMatches(_, _)
DependencyMatches(text, p) ==
    IF p > Len(DEPENDENCY_PATTERNS) THEN <<>>
    ELSE LET ms == FindIter(text, 1, DEPENDENCY_PATTERNS[p].pat)
             recs == [n \in 1..Len(ms) |->
                        LET snippet == SubSeq(text, ms[n][1], ms[n][2] - 1)
                        IN [relation |-> DEPENDENCY_PATTERNS[p].rel,
                            hint |-> snippet, form_id |-> FormId(snippet)]]
         IN recs \o DependencyMatches(text, p + 1)

\* (d["relation"], d.get("form_id") or d["hint"])
DependencyKey(d) ==
    <<d.relation, IF d.form_id # "" THEN <<d.form_id>> ELSE d.hint>>

\* The de-dupe loop: the first dependency of each key.
RECURSIVE DedupDependencies(_)
DedupDependencies(deps) ==
    IF deps = <<>> THEN <<>>
    ELSE LET rest == DedupDependencies(SubSeq(deps, 1, Len(deps) - 1))
             d == deps[Len(deps)]
         IN IF \E i \in 1..Len(rest) : DependencyKey(rest[i]) = DependencyKey(d)
            THEN rest ELSE Append(rest, d)

detect_dependencies(text) ==
    IF text = <<>> THEN <<>> ELSE DedupDependencies(DependencyMatches(text, 1))

\* DEADLINE_PATTERNS, in list order.
DEADLINE_PATTERNS ==
    LET num == Tok(NumberWords)
        date == Tok(DateWords)
        within == Tok({"within"})
        days == Alt(<<<<"days">>, <<"business", "days">>>>)
        span == Alt(<<<<"days">>, <<"business", "days">>, <<"weeks">>, <<"months">>>>)
    IN <<<<within, num, Tok({"calendar", "business"}), Tok({"days"})>>,
         <<within, num, Tok({"month", "months"})>>,
         <<Tok({"no"}), Tok({"later"}), Tok({"than"}), num, days>>,
         <<Tok({"by"}), Opt({"the"}), date>>,
         <<Tok({"by"}), Opt({"the"}), AnyId, date, date>>,
         <<Tok({"postmarked"}), within, num, Tok({"days"})>>,
         <<num, Tok({"calendar", "business"}), Tok({"days"}), Tok({"of"}),
           Alt(<<<<"receipt">>, <<"effective", "date">>, <<"notification">>>>)>>,
         <<Tok({"on"}), Tok({"or"}), Tok({"before"}), date>>,
         <<Tok({"on"}), Tok({"or"}), Tok({"before"}), AnyId, date, date>>,
         <<Tok({"must"}), Tok({"be"}), Tok({"received", "submitted", "returned"}),
           within, num, span>>,
         <<Tok({"no"}), Tok({"later"}), Tok({"than"})>>,
         <<Tok({"on"}), Tok({"or"}), Tok({"before"})>>,
         <<within, num, span>>,
         <<Tok({"postmarked"}), Tok({"by"})>>,
         <<Tok({"effective"}), Tok({"date"}), Gap, within, num, days>>>>

\* detect_deadlines: the set of the matched spans; the source returns it
\* sorted.
detect_deadlines(text) ==
    UNION {LET ms == FindIter(text, 1, DEADLINE_PATTERNS[p])
           IN {SubSeq(text, ms[n][1], ms[n][2] - 1) : n \in 1..Len(ms)} :
           p \in 1..Len(DEADLINE_PATTERNS)}

\* ------------------------------------------------------------------------
\* The document as the PDF layer shows it
\*
\* A page is [blocks, blocks_raise, drawings, drawings_raise, widgets,
\* page_js, images, chars]:
\*   blocks    page.get_text("blocks"): a sequence of [rect, text], text
\*             being the words of the block; it raises if blocks_raise
\*   drawings  page.get_drawings(): a sequence of drawings, each the
\*             sequence of its items [kind, p0, p1]; it raises if
\*             drawings_raise
\*   widgets   page.widgets(): a sequence of widgets; a widget whose
\*             `broken` is set raises on every attribute read
\*   page_js   page.get_actions() or page.get_javascript() is truthy
\*   images    len(page.get_images(full=True))
\*   chars     len(page.get_text("text"))
\* A rectangle is [x0, y0, x1, y1]; a point is <<x, y>>.
\* ------------------------------------------------------------------------

Rect(x0, y0, x1, y1) == [x0 |-> x0, y0 |-> y0, x1 |-> x1, y1 |-> y1]

Abs(n) == IF n < 0 THEN -n ELSE n

\* The text of a clip: the blocks that reach into it.
Intersects(r, c) == r.x0 < c.x1 /\ c.x0 < r.x1 /\ r.y0 < c.y1 /\ c.y0 < r.y1

\* " ".join of a sequence of texts
RECURSIVE Join(_)
Join(texts) == IF texts = <<>> THEN <<>> ELSE Head(texts) \o Join(Tail(texts))

\* The long horizontal lines of a page's drawings: the "l" items with
\* abs(y1-y0) < 1.0 and abs(x1-x0) > 60.
HorizontalLines(drawings) ==
    {it \in UNION {Range(drawings[d]) : d \in 1..Len(drawings)} :
        it.kind = "l" /\ Abs(it.p1[2] - it.p0[2]) < 1 /\ Abs(it.p1[1] - it.p0[1]) > 60}

\* close_line: a horizontal line in the band under the block.
CloseLine(rect, horiz) ==
    LET band == Rect(rect.x0 - 10, rect.y1 - 6, rect.x1 + 200, rect.y1 + 18)
    IN \E l \in horiz :
          /\ band.y0 - 6 <= l.p0[2] /\ l.p0[2] <= band.y1 + 6
          /\ ~(l.p1[1] < band.x0 \/ l.p0[1] > band.x1)

\* A run of underscores as a word of a block, by its length.
UnderscoreRun(w) ==
    CASE w = "__" -> 2
      [] w = "___" -> 3
      [] w = "_____" -> 5
      [] OTHER -> 0

\* has_underline: _{5,}|_{3,}\s*/{0,1} finds a run of three or more.
HasUnderline(txt) == \E i \in 1..Len(txt) : UnderscoreRun(txt[i]) >= 3

\* The blocks of a page in whose text re.search finds \bword\b, whatever
\* the case of the letters.
WordBlocks(blocks, word) ==
    SelectSeq(blocks, LAMBDA b : ContainsPhrase(LowerText(b.text), <<word>>))

\* What a layout estimate comes to: a count, or an exception when a page
\* lookup it does not guard raises.
Returns(n) == [raised |-> FALSE, n |-> n]

Raises == [raised |-> TRUE, n |-> 0]

\* A slip the per-page cap must not survive: every counted block of the page
\* added.
TextSignaturesOnPage_uncapped(page) ==
    IF page.blocks_raise THEN Raises
    ELSE LET sig_blocks == WordBlocks(page.blocks, "signature")
         IN IF sig_blocks = <<>> THEN Returns(0)
            ELSE IF page.drawings_raise THEN Raises
            ELSE Returns(Cardinality({n \in 1..Len(sig_blocks) :
                            \/ CloseLine(sig_blocks[n].rect, HorizontalLines(page.drawings))
                            \/ HasUnderline(sig_blocks[n].text)}))

\* One page of _estimate_text_signatures: min(page_counted, 2).
TextSignaturesOnPage(page) ==
    IF page.blocks_raise THEN Raises
    ELSE LET sig_blocks == WordBlocks(page.blocks, "signature")
         IN IF sig_blocks = <<>> THEN Returns(0)
            ELSE IF page.drawings_raise THEN Raises
            ELSE LET horiz == HorizontalLines(page.drawings)
                     counted == {n \in 1..Len(sig_blocks) :
                                    \/ CloseLine(sig_blocks[n].rect, horiz)
                                    \/ HasUnderline(sig_blocks[n].text)}
                 IN Returns(Min(Cardinality(counted), 2))

\* One page of _estimate_witness_signatures: min(page_counted, 2).
WitnessSignaturesOnPage(page) ==
    IF page.blocks_raise \/ page.drawings_raise THEN Raises
    ELSE LET witness_blocks == WordBlocks(page.blocks, "witness")
             horiz == HorizontalLines(page.drawings)
             counted == {n \in 1..Len(witness_blocks) :
                            CloseLine(witness_blocks[n].rect, horiz)}
         IN Returns(Min(Cardinality(counted), 2))

\* The page loop of an estimate over the pages' counts: their sum, or the
\* exception of the first page that raises.
RECURSIVE SumPages(_, _)
SumPages(counts, i) ==
    IF i > Len(counts) THEN Returns(0)
    ELSE LET rest == SumPages(counts, i + 1)
         IN IF counts[i].raised \/ rest.raised THEN Raises
            ELSE Returns(counts[i].n + rest.n)

\* re.findall(r"\bword\b", text): the count of the word in the text.
CountWord(text, word) == Cardinality({i \in 1..Len(text) : text[i] = word})

\* The opening of the document fails only for a document that does not
\* decode; analyze_one has returned before it gets here.
estimate_text_signatures(d, text) ==
    IF ~d.opens THEN Returns(Min(2, CountWord(text, "signature")))
    ELSE LET hits == SumPages([i \in 1..Len(d.pages) |->
                                   TextSignaturesOnPage(d.pages[i])], 1)
         IN IF hits.raised THEN Raises ELSE Returns(Min(hits.n, 5))

estimate_witness_signatures(d, text) ==
    IF ~d.opens THEN Returns(Min(2, CountWord(text, "witness")))
    ELSE LET hits == SumPages([i \in 1..Len(d.pages) |->
                                   WitnessSignaturesOnPage(d.pages[i])], 1)
         IN IF hits.raised THEN Raises ELSE Returns(Min(hits.n, 4))

\* ------------------------------------------------------------------------
\* Widgets
\*
\* A widget is [field_type, field_name, tooltip, is_required, is_signature,
\* rect, actions, broken]: field_name and tooltip are sequences of words (the
\* dotted parts of a name are its words), actions says that w.get_actions()
\* is truthy, and a broken widget raises on every attribute read.
\* ------------------------------------------------------------------------

\* The widgets of the document in the order the page loops meet them.
AllWidgets(d) == Join([i \in 1..Len(d.pages) |-> d.pages[i].widgets])

\* The widgets a loop gets through when an attribute read of a broken widget
\* ends it: those before the first broken one.
FirstBroken(ws) ==
    LET bad == {i \in 1..Len(ws) : ws[i].broken}
    IN IF bad = {} THEN Len(ws) + 1 ELSE CHOOSE i \in bad : \A j \in bad : i <= j

BeforeBroken(ws) == SubSeq(ws, 1, FirstBroken(ws) - 1)

\* count_fields: total is raised before the type of the widget is read, so
\* the widget that ends the loop is counted in it.
count_fields(d) ==
    LET ws == AllWidgets(d)
        seen == BeforeBroken(ws)
    IN [total |-> Min(FirstBroken(ws), Len(ws)),
        text_fields |-> Len(SelectSeq(seen, LAMBDA w : w.field_type = "text")),
        checkboxes |-> Len(SelectSeq(seen, LAMBDA w : w.field_type = "checkbox")),
        dropdowns |-> Len(SelectSeq(seen, LAMBDA w : w.field_type \in {"combobox", "listbox"})),
        signatures |->
            Len(SelectSeq(seen, LAMBDA w :
                /\ w.field_type \notin {"text", "checkbox", "combobox", "listbox"}
                /\ (w.field_type = "signature" \/ w.is_signature)))]

\* count_attachments
count_attachments(d) == IF d.embedded_raise THEN 0 ELSE d.embedded

\* detect_js: document, page and widget actions, then the radio inference,
\* whose loop a broken widget ends.
detect_js(d) ==
    LET ws == AllWidgets(d)
        radios == Len(SelectSeq(BeforeBroken(ws), LAMBDA w : w.field_type = "radio"))
    IN IF \/ d.doc_js
          \/ \E i \in 1..Len(d.pages) : d.pages[i].page_js
          \/ \E i \in 1..Len(ws) : ~ws[i].broken /\ ws[i].actions
          \/ radios >= 2
       THEN "Yes" ELSE "No"

\* count_radio_groups: the first dotted part of the names of the radio
\* buttons; a broken widget is skipped.
count_radio_groups(d) ==
    LET ws == AllWidgets(d)
    IN Cardinality({ws[i].field_name[1] :
                       i \in {j \in 1..Len(ws) : /\ ~ws[j].broken
                                                 /\ ws[j].field_type = "radio"
                                                 /\ ws[j].field_name # <<>>}})

\* round(total / pages, 2) in hundredths. Python rounds the quotient's
\* binary value; a tie is exact, and goes to the even hundredth, only when
\* pages is a multiple of 8.
RoundHundredths(total, pages) ==
    LET q == (100 * total) \div pages
        r == (100 * total) % pages
    IN IF 2 * r > pages THEN q + 1
       ELSE IF 2 * r = pages THEN q + (q % 2)
       ELSE q

RECURSIVE SumOver(_, _)
SumOver(ns, i) == IF i > Len(ns) THEN 0 ELSE ns[i] + SumOver(ns, i + 1)

\* page_graphics_stats, in hundredths; a page whose drawings raise adds none.
page_graphics_stats(d) ==
    LET pages == Max(1, Len(d.pages))
        over(F(_)) == SumOver([i \in 1..Len(d.pages) |-> F(d.pages[i])], 1)
    IN [images_per_page |-> RoundHundredths(over(LAMBDA p : p.images), pages),
        drawings_per_page |->
            RoundHundredths(over(LAMBDA p : IF p.drawings_raise THEN 0
                                            ELSE Len(p.drawings)), pages),
        text_density |-> RoundHundredths(over(LAMBDA p : p.chars), pages)]

LABEL_SEARCH_PAD == 20

\* _label_near_widget: the text of the blocks in the search rectangle above
\* and left of the widget; "" when a lookup raises.
label_near_widget(page, w) ==
    IF w.broken \/ page.blocks_raise THEN <<>>
    ELSE LET search == Rect(w.rect.x0 - 200, w.rect.y0 - 40 - LABEL_SEARCH_PAD,
                            w.rect.x1 + 10, w.rect.y0 + 5)
         IN Join([n \in 1..Len(SelectSeq(page.blocks,
                                         LAMBDA b : Intersects(b.rect, search))) |->
                    SelectSeq(page.blocks, LAMBDA b : Intersects(b.rect, search))[n].text])

\* FIELD_CLASS_PATTERNS, in list order. \$ of the amount pattern needs a
\* word character on both sides of the dollar sign, which no word of the
\* model has.
FIELD_CLASS_PATTERNS_generic_first ==
    <<[klass |-> "date", phrases |-> {<<"date">>}],
      [klass |-> "zip", phrases |-> {<<"zip">>, <<"postal">>}],
      [klass |-> "state", phrases |-> {<<"state">>, <<"prov">>, <<"province">>}],
      [klass |-> "ssn", phrases |-> {<<"ssn">>, <<"social", "security">>}],
      [klass |-> "tin", phrases |-> {<<"tin">>, <<"taxpayer">>}],
      [klass |-> "ein", phrases |-> {<<"ein">>, <<"employer", "id">>,
                                     <<"employer", "identification">>}],
      [klass |-> "dob", phrases |-> {<<"date", "of", "birth">>, <<"dob">>}],
      [klass |-> "phone", phrases |-> {<<"phone">>, <<"telephone">>, <<"cell">>}],
      [klass |-> "email", phrases |-> {<<"email">>, <<"e-mail">>, <<"e", "mail">>}],
      [klass |-> "routing", phrases |-> {<<"routing">>, <<"aba">>}],
      [klass |-> "account", phrases |-> {<<"account">>, <<"acct">>}],
      [klass |-> "amount", phrases |-> {<<"amount">>, <<"usd">>}],
      [klass |-> "signature", phrases |-> {<<"signature">>}],
      [klass |-> "notary", phrases |-> {<<"notary">>}],
      [klass |-> "witness", phrases |-> {<<"witness">>}]>>

FIELD_CLASS_PATTERNS ==
    <<[klass |-> "ssn", phrases |-> {<<"ssn">>, <<"social", "security">>}],
      [klass |-> "tin", phrases |-> {<<"tin">>, <<"taxpayer">>}],
      [klass |-> "ein", phrases |-> {<<"ein">>, <<"employer", "id">>,
                                     <<"employer", "identification">>}],
      [klass |-> "dob", phrases |-> {<<"date", "of", "birth">>, <<"dob">>}],
      [klass |-> "date", phrases |-> {<<"date">>}],
      [klass |-> "phone", phrases |-> {<<"phone">>, <<"telephone">>, <<"cell">>}],
      [klass |-> "email", phrases |-> {<<"email">>, <<"e-mail">>, <<"e", "mail">>}],
      [klass |-> "zip", phrases |-> {<<"zip">>, <<"postal">>}],
      [klass |-> "state", phrases |-> {<<"state">>, <<"prov">>, <<"province">>}],
      [klass |-> "routing", phrases |-> {<<"routing">>, <<"aba">>}],
      [klass |-> "account", phrases |-> {<<"account">>, <<"acct">>}],
      [klass |-> "amount", phrases |-> {<<"amount">>, <<"usd">>}],
      [klass |-> "signature", phrases |-> {<<"signature">>}],
      [klass |-> "notary", phrases |-> {<<"notary">>}],
      [klass |-> "witness", phrases |-> {<<"witness">>}]>>

\* The signature pattern tried before the table.
infer_field_class_signature_first(name, alt, label) ==
    LET hay == LowerText(name \o alt \o label)
        hit == {k \in 1..Len(FIELD_CLASS_PATTERNS) :
                   Matches(hay, FIELD_CLASS_PATTERNS[k].phrases)}
    IN IF Matches(hay, {<<"signature">>}) THEN "signature"
       ELSE IF hit = {} THEN "text"
       ELSE FIELD_CLASS_PATTERNS[CHOOSE k \in hit : \A j \in hit : k <= j].klass

\* _infer_field_class: the class of the first pattern found in the
\* lower-cased name, tooltip and label.
infer_field_class(name, alt, label) ==
    LET hay == LowerText(name \o alt \o label)
        hit == {k \in 1..Len(FIELD_CLASS_PATTERNS) :
                   Matches(hay, FIELD_CLASS_PATTERNS[k].phrases)}
    IN IF hit = {} THEN "text"
       ELSE FIELD_CLASS_PATTERNS[CHOOSE k \in hit : \A j \in hit : k <= j].klass

\* ------------------------------------------------------------------------
\* The NIGO rule pass (nigo_design_checks)
\* ------------------------------------------------------------------------

\* `a or b` of two strings
OrElse(a, b) == IF a # <<>> THEN a ELSE b

EXPECTED_MASK ==
    {"ssn", "tin", "ein", "dob", "date", "phone", "email", "zip", "state",
     "routing", "account", "amount"}

EXPECTED_REQUIRED ==
    {"signature", "dob", "ssn", "email", "phone", "zip", "state", "routing",
     "account", "amount"}

\* The findings of one widget of page i, in the order the rules are tried.
WidgetFindings(i, page, w) ==
    LET fname == w.field_name
        alt == w.tooltip
        label == label_near_widget(page, w)
        fclass == infer_field_class(fname, alt, label)
        guarded == w.actions \/ page.page_js
        named == OrElse(fname, OrElse(alt, <<"(unnamed)">>))
    IN (IF fclass \in EXPECTED_REQUIRED /\ ~w.is_required
        THEN <<Finding("REQ-001", "high", i, named, fclass,
                       "Field likely should be required but isn't.",
                       <<"Label=">> \o label \o <<"name=">> \o fname)>>
        ELSE <<>>)
       \o
       (IF fclass \in EXPECTED_MASK /\ ~guarded
        THEN <<Finding("FMT-001", "medium", i, named, fclass,
                       "No input mask/validation detected for a high-risk field.",
                       <<"Class=", fclass>>)>>
        ELSE <<>>)
       \o
       (IF fclass = "signature" /\ ~Matches(LowerText(label), {<<"date">>})
        THEN <<Finding("SIG-002", "low", i, OrElse(fname, <<"(signature)">>), fclass,
                       "Signature likely needs an adjacent Date field.",
                       <<"Nearby label=">> \o label)>>
        ELSE <<>>)
       \o
       (IF /\ Matches(LowerText(label \o alt \o fname),
                      {<<"beneficiary">>, <<"dependent">>})
           /\ ~guarded
        THEN <<Finding("COND-003", "medium", i, OrElse(fname, <<"(beneficiary)">>),
                       fclass,
                       "Conditional area lacks visible logic; consider requiring SSN/DOB masks.",
                       <<"Label=">> \o label)>>
        ELSE <<>>)

SysErr ==
    Finding("SYS-ERR", "info", 0, <<>>, "", "Analyzer error during NIGO checks.",
            <<"str(e)">>)

\* The loops over the pages and their widgets from widget k of page i on,
\* with the findings so far. The one try statement around both loops ends
\* the pass at the first widget whose attributes cannot be read.
RECURSIVE NigoPass(_, _, _, _)
NigoPass(pages, i, k, findings) ==
    IF i > Len(pages) THEN findings
    ELSE IF k > Len(pages[i].widgets) THEN NigoPass(pages, i + 1, 1, findings)
    ELSE IF pages[i].widgets[k].broken THEN Append(findings, SysErr)
    ELSE NigoPass(pages, i, k + 1,
                  findings \o WidgetFindings(i, pages[i], pages[i].widgets[k]))

nigo_design_checks(d) ==
    IF ~d.opens THEN <<SysErr>> ELSE NigoPass(d.pages, 1, 1, <<>>)

\* ------------------------------------------------------------------------
\* Signature profile (analyze_signatures)
\* ------------------------------------------------------------------------

IsSignatureWidget(w) == w.field_type = "signature" \/ w.is_signature

\* A slip the fallback rule must not survive: the layout estimate taken
\* whatever the widgets and the digital signatures say.
TextFallback_unguarded(d, text, sig_widgets, dig_sigs) ==
    estimate_text_signatures(d, text)

\* text_fb: the layout estimate, asked for only when no signature widget and
\* no digital signature was found.
TextFallback(d, text, sig_widgets, dig_sigs) ==
    IF sig_widgets + dig_sigs = 0 THEN estimate_text_signatures(d, text)
    ELSE Returns(0)

\* The profile, or the exception of a layout estimate.
analyze_signatures(d, text) ==
    LET sig_widgets == Len(SelectSeq(BeforeBroken(AllWidgets(d)), IsSignatureWidget))
        read == d.pyhanko.installed /\ ~d.pyhanko.raises
        dig_sigs == IF read THEN d.pyhanko.count ELSE 0
        has_ts == read /\ d.pyhanko.count > 0 /\ d.pyhanko.timestamp
        text_fb == TextFallback(d, text, sig_widgets, dig_sigs)
        witness == estimate_witness_signatures(d, text)
        notarized_kw == Matches(text, NOTARY_PATTERNS)
    IN IF text_fb.raised \/ witness.raised THEN [raised |-> TRUE]
       ELSE [raised |-> FALSE,
             signature_count |-> sig_widgets + dig_sigs + text_fb.n,
             witness_signature_count |-> witness.n,
             conditional_signature_count |-> conditional_signature_count(text),
             notarized |-> IF has_ts \/ notarized_kw THEN "Yes" ELSE "No",
             signature_debug |-> [widgets |-> sig_widgets, digital |-> dig_sigs,
                                  fallback_text_layout |-> text_fb.n]]

\* ------------------------------------------------------------------------
\* Industry and sub-vertical (classify_industry_subvertical)
\* ------------------------------------------------------------------------

\* `k in low` for a key of one or of several words.
InText(text, key) ==
    IF Len(key) = 1 THEN TextHasWord(text, key[1]) ELSE ContainsPhrase(text, key)

\* `k in host` for a key of one word.
InHost(host, w) == \E i \in 1..Len(host) : w \in Infixes(host[i])

\* any(k in (host+" "+low) for k in keys), the keys being words and phrases.
AnyInHostOrText(host, text, keys) ==
    \E k \in keys : InText(text, k) \/ (Len(k) = 1 /\ InHost(host, k[1]))

AnyInText(text, keys) == \E k \in keys : InText(text, k)

\* ".gov" in (host+" "+low): no word of the model's texts holds a dot
\* followed by gov.
DotGovIn(host, text) == HostHasDotGov(host)

classify_industry_subvertical(url, text, entity_name) ==
    LET host == url
        fin == AnyInHostOrText(host, text,
                 {<<"fidelity">>, <<"vanguard">>, <<"schwab">>, <<"ameritrade">>,
                  <<"morgan", "stanley">>, <<"us", "bank">>, <<"wells", "fargo">>,
                  <<"chase">>, <<"pnc">>, <<"account">>, <<"beneficiary">>, <<"ira">>,
                  <<"401k">>, <<"brokerage">>})
        wealth == AnyInText(text,
                 {<<"custodian">>, <<"advisor">>, <<"wealth">>, <<"brokerage">>,
                  <<"beneficiary">>, <<"ira">>, <<"roth">>, <<"acat">>,
                  <<"transfer", "of", "assets">>})
        banking == AnyInText(text,
                 {<<"ach">>, <<"routing", "number">>, <<"wire">>, <<"checking">>,
                  <<"savings">>, <<"loan">>, <<"mortgage">>, <<"account", "number">>})
        pnc_ins == AnyInText(text,
                 {<<"policy">>, <<"claim">>, <<"loss">>, <<"insured">>, <<"adjuster">>,
                  <<"premium">>, <<"p&c">>, <<"auto", "policy">>})
        health == AnyInHostOrText(host, text,
                 {<<"cigna">>, <<"aetna">>, <<"unitedhealth">>, <<"uhc">>, <<"hipaa">>,
                  <<"prior", "authorization">>, <<"member", "id">>})
        payer == AnyInText(text,
                 {<<"claim">>, <<"prior", "authorization">>, <<"eligibility">>,
                  <<"member", "id">>, <<"edi", "837">>, <<"payer">>})
        provider == AnyInText(text,
                 {<<"provider">>, <<"npi">>, <<"superbill">>, <<"encounter">>,
                  <<"progress", "note">>})
        lfs == AnyInText(text,
                 {<<"informed", "consent">>, <<"clinical", "trial">>, <<"irb">>,
                  <<"sponsor">>, <<"investigational">>})
        public == \/ DotGovIn(host, text)
                  \/ AnyInHostOrText(host, text,
                       {<<"gsa">>, <<"uscis">>, <<"irs">>, <<"ssa">>, <<"state", "of">>,
                        <<"city", "of">>, <<"county", "of">>, <<"school", "district">>})
        federal == \/ DotGovIn(host, text)
                   \/ AnyInHostOrText(host, text,
                        {<<"gsa">>, <<"irs">>, <<"ssa">>, <<"uscis">>})
                   \/ HostContains(host, <<"va", "gov">>)
                   \/ HostContains(host, <<"dot", "gov">>)
                   \/ TextHasWord(text, "federal")
        sled == \/ AnyInText(text,
                     {<<"state", "of">>, <<"county">>, <<"city", "of">>, <<"municipal">>,
                      <<"township">>, <<"dmv">>, <<"permit">>, <<"licensure">>})
                \/ \E st \in {"wa", "ca", "az", "ny"} : HostContains(host, <<st, "gov">>)
        edu == AnyInText(text,
                     {<<"school">>, <<"university">>, <<"college">>, <<"district">>,
                      <<"k-12">>, <<"education">>})
        nfp == AnyInText(text,
                     {<<"501(c)">>, <<"nonprofit">>, <<"not-for-profit">>,
                      <<"charitable">>})
    IN IF fin
       THEN <<"Financial Services",
              IF wealth THEN "Wealth Management"
              ELSE IF pnc_ins THEN "P&C Insurance"
              ELSE IF banking THEN "Banking" ELSE "Wealth Management">>
       ELSE IF health
       THEN <<"Healthcare",
              IF payer THEN "Payer" ELSE IF provider THEN "Provider"
              ELSE IF lfs THEN "Life Sciences" ELSE "Payer">>
       ELSE IF public
       THEN <<"Public Sector",
              IF federal THEN "Federal Government" ELSE IF edu THEN "Education"
              ELSE IF sled THEN "State & Local"
              ELSE IF nfp THEN "Not-for-Profit" ELSE "State & Local">>
       ELSE <<"", "">>

\* ------------------------------------------------------------------------
\* Title and summary
\* ------------------------------------------------------------------------

\* len() of a word of the model.
WordLen(w) ==
    CASE w \in {"a", "b"} -> 1
      [] w \in {"of", "no", "30", "__", "id"} -> 2
      [] w \in {"ssn", "see", "w-9", "irs", "sig", "___", "www", "gov", "com", "SSN",
                "tin", "ein", "DOB", "zip"} -> 3
      [] w \in {"form", "than", "days", "date", "Date", "full", "name"} -> 4
      [] w \in {"later", "_____", "court", "birth", "phone", "state"} -> 5
      [] w \in {"notary", "public", "attach", "choice", "spouse", "doctor", "broker",
                "lawyer", "social", "e-mail", "amount"} -> 6
      [] w \in {"witness", "example", "routing", "account"} -> 7
      [] w \in {"attorney", "guardian", "employer", "security"} -> 8
      [] w \in {"applicant", "signature", "Signature", "livecycle"} -> 9
      [] w \in {"beneficiary", "formsportal"} -> 11
      [] w \in {"jpmorganchase"} -> 13

\* len() of a text: its words and the spaces between them.
RECURSIVE Chars(_)
Chars(t) == IF t = <<>> THEN 0
            ELSE WordLen(Head(t)) + (IF Len(t) > 1 THEN 1 ELSE 0) + Chars(Tail(t))

TITLE_CUT == 120

\* line.strip()[:120]: the whole words before the cut, and how many
\* characters of the word the cut falls in are kept.
CutTitle(t) ==
    LET fit == {n \in 0..Len(t) : Chars(SubSeq(t, 1, n)) <= TITLE_CUT}
        n == CHOOSE m \in fit : \A k \in fit : k <= m
    IN [words |-> SubSeq(t, 1, n),
        cut |-> IF n = Len(t) THEN 0
                ELSE Max(0, TITLE_CUT - Chars(SubSeq(t, 1, n)) - (IF n > 0 THEN 1 ELSE 0))]

\* meta.get(key), "" when the key is missing
MetaGet(meta, key) ==
    LET at == {i \in 1..Len(meta) : meta[i][1] = key}
    IN IF at = {} THEN <<>> ELSE meta[CHOOSE i \in at : TRUE][2]

\* extract_title: the metadata title, else the first line of the text longer
\* than 5 characters (the normalized text is one line), else "Unknown Form".
extract_title(meta, text) ==
    IF MetaGet(meta, "title") # <<>>
    THEN [words |-> MetaGet(meta, "title"), cut |-> 0]
    ELSE IF Chars(text) > 5 THEN CutTitle(text)
    ELSE [words |-> <<"Unknown Form">>, cut |-> 0]

\* summarize_special_requirements: the bullets, each a sequence of strings,
\* without repeats.
summarize_special_requirements(result) ==
    LET sig == result.signature_analysis
        when(c, bullet) == IF c THEN <<bullet>> ELSE <<>>
    IN Dedup(
          when(sig.notarized = "Yes", <<"Requires notarization">>)
       \o when(sig.witness_signature_count > 0, <<"Requires witness signature">>)
       \o when(result.signatures > 0 \/ sig.signature_count > 0,
               <<ToString(Max(result.signatures, sig.signature_count)),
                 "signature field(s)">>)
       \o when(result.attachment_count > 0 \/ result.attachment_requirements # <<>>,
               <<"Requires supporting attachments">>)
       \o when(result.conditional_logic = "Yes" \/ result.multistep_logic_hint,
               <<"Conditional/JavaScript logic present">>)
       \o when(result.pii_fields["any_pii"], <<"Collects sensitive PII">>)
       \o when(result.radio_groups >= 2, <<"Multiple radio groups (branching choices)">>)
       \o when(result.page_count >= 8, <<"Long form (8+ pages)">>)
       \o when(result.deadlines # {}, <<"Mentions submission timing/deadlines">>)
       \o when(result.dependencies # <<>>, <<"References other required forms">>)
       \o when(result.host_domain_check.mismatch,
               <<"Hosted on domain different from issuer">>)
       \o when(result.third_party_roles # <<>>,
               <<"Involves third party:">> \o result.third_party_roles))

\* ------------------------------------------------------------------------
\* analyze_one (form_analyzer.py)
\*
\* A document is [url, download, opens, text_fails, meta, pages,
\* pyhanko, embedded, embedded_raise, doc_js, has_tldextract, brand_map]:
\*   url                the host of the URL the document is fetched from
\*   download           "ok", "flaky" (the first attempt fails, the next
\*                      works) or "down" (every attempt fails)
\*   opens              fitz.open decodes the document
\*   text_fails         both text extractors raise
\*   meta               doc.metadata as a sequence of <<key, words>>
\*   pyhanko            [installed, raises, count, timestamp]: the digital
\*                      signatures pyHanko reads, if it is installed
\*   embedded           the embedded file count; reading it raises if
\*                      embedded_raise
\*   doc_js             doc.get_actions() or doc.has_js() is truthy
\*   has_tldextract     tldextract is installed
\*   brand_map          the brand registry the run is given
\* ------------------------------------------------------------------------

\* _download, and the download loop of analyze_form: the stream, unless
\* every attempt fails.
DownloadRaises(d) == d.download = "down"

\* extract_text: the lower-cased text of the pages, "" when both extractors
\* raise or the document does not decode.
extract_text(d) ==
    IF d.text_fails \/ ~d.opens THEN <<>>
    ELSE LowerText(Join([i \in 1..Len(d.pages) |->
                           Join([n \in 1..Len(d.pages[i].blocks) |->
                                   d.pages[i].blocks[n].text])]))

\* The result of a run that raised: the except clause of analyze_one.
ErrorResult(d, rid, error) ==
    [url |-> d.url, status |-> "error", error |-> error, analysis_id |-> rid]

\* A slip the role rule must not survive: the finding filed as low.
RoleFinding_low(signature_count) ==
    Finding("ROLE-001", "low", 0, <<>>, "signature",
            "Signature line(s) without role attribution (e.g., Applicant, Co-owner, Notary).",
            <<"Detected", ToString(signature_count),
              "signature(s) with no labeled role.">>)

\* The finding analyze_one adds for signatures without a role.
RoleFinding(signature_count) ==
    Finding("ROLE-001", "medium", 0, <<>>, "signature",
            "Signature line(s) without role attribution (e.g., Applicant, Co-owner, Notary).",
            <<"Detected", ToString(signature_count),
              "signature(s) with no labeled role.">>)

\* The finding analyze_one adds for third-party roles.
ThirdPartyFinding(third_party_roles) ==
    Finding("THRD-001", "medium", 0, <<>>, "third_party",
            "Third-party involvement requires coordination (scheduling, credential validation).",
            <<"Detected third-party role(s):">> \o third_party_roles)

\* res["special_requirements_summary"] = summarize_special_requirements(res)
WithSummary(res) ==
    [k \in DOMAIN res \cup {"special_requirements_summary"} |->
        IF k = "special_requirements_summary"
        THEN summarize_special_requirements(res) ELSE res[k]]

\* The result dictionary of analyze_one from what its detectors returned.
Result(d, run, text, fields, sigs, attach_r, has_js, pii, roles, radios, gfx, xfa, nigo_r, deps, dls, entity, domain, industry, tp) ==
    [url |-> d.url,
     analysis_id |-> run.rid,
     timestamp |-> run.now,
     entity_name |-> entity,
     form_title |-> extract_title(d.meta, text),
     page_count |-> Len(d.pages),
     field_count |-> fields.total,
     text_fields |-> fields.text_fields,
     checkboxes |-> fields.checkboxes,
     dropdowns |-> fields.dropdowns,
     radio_groups |-> radios,
     signatures |-> fields.signatures,
     attachment_count |-> count_attachments(d),
     attachment_requirements |-> attach_r,
     conditional_logic |-> has_js,
     multistep_logic_hint |-> (has_js = "Yes" /\ radios >= 2),
     signature_analysis |-> [k \in DOMAIN sigs \ {"raised"} |-> sigs[k]],
     roles_required |-> roles,
     third_party_roles |-> tp.roles,
     third_party_evidence |-> tp.evidence,
     pii_fields |-> pii,
     images_per_page |-> gfx.images_per_page,
     drawings_per_page |-> gfx.drawings_per_page,
     text_density |-> gfx.text_density,
     xfa_like |-> xfa,
     nigo_risks |-> nigo_r,
     nigo_score |-> calculate_nigo_score(nigo_r, pii),
     dependencies |-> deps,
     deadlines |-> dls,
     host_domain_check |-> domain,
     industry |-> industry[1],
     subvertical |-> industry[2],
     complexity_score |->
         calculate_complexity(text, fields, Len(d.pages), sigs,
             [pii |-> pii, roles |-> roles, attachments_req |-> attach_r,
              radio_groups |-> radios, gfx |-> gfx, xfa_hint |-> xfa,
              has_js |-> (has_js = "Yes"), deadlines |-> Cardinality(dls),
              dependencies |-> Len(deps),
              domain_mismatch |-> domain.mismatch,
              third_party_count |-> Len(tp.roles),
              third_party_roles |-> tp.roles]),
     status |-> "success"]

\* The signer roles and the findings once the detectors have run: a
\* signature without a role makes the role "Unspecified Signer" and adds
\* ROLE-001; third-party roles add THRD-001.
Assemble(d, run, text, fields, sigs, attach_r, has_js, pii, roles0, radios, gfx, xfa, nigo0, deps, dls, entity, domain, industry, tp) ==
    Result(d, run, text, fields, sigs, attach_r, has_js, pii,
           IF sigs.signature_count > 0 /\ roles0 = <<>>
           THEN <<"Unspecified Signer">> ELSE roles0,
           radios, gfx, xfa,
           nigo0
             \o (IF sigs.signature_count > 0 /\ roles0 = <<>>
                 THEN <<RoleFinding(sigs.signature_count)>> ELSE <<>>)
             \o (IF tp.roles # <<>> THEN <<ThirdPartyFinding(tp.roles)>> ELSE <<>>),
           deps, dls, entity, domain, industry, tp)

\* The detectors that need the entity name.
WithEntity(d, run, text, sigs, entity) ==
    Assemble(d, run, text, count_fields(d), sigs,
             detect_attachment_requirements(text), detect_js(d), detect_pii(text),
             detect_roles(text), count_radio_groups(d), page_graphics_stats(d),
             xfa_like_hint(text, d.meta), nigo_design_checks(d),
             detect_dependencies(text), detect_deadlines(text), entity,
             host_domain_info(d.url, entity, text, d.meta, d.brand_map,
                              [tldextract |-> d.has_tldextract, seed |-> run.seed]),
             classify_industry_subvertical(d.url, text, entity),
             detect_third_parties(text))

\* The try block of analyze_one once the text is extracted. Of the calls it
\* makes, analyze_signatures is the one that lets an exception through.
WithText(d, run, text, sigs) ==
    IF sigs.raised THEN ErrorResult(d, run.rid, "page lookup failed")
    ELSE WithSummary(WithEntity(d, run, text, sigs,
                                extract_entity_name_financial(text, d.url)))

\* analyze_one(item, brand_map) under the choices of one run: the uuid4 it
\* draws, the clock it reads and the hash seed of the interpreter.
analyze_one(d, run) ==
    IF DownloadRaises(d) THEN ErrorResult(d, run.rid, "download failed")
    ELSE IF ~d.opens THEN ErrorResult(d, run.rid, "cannot open document")
    ELSE WithText(d, run, extract_text(d), analyze_signatures(d, extract_text(d)))

\* ------------------------------------------------------------------------
\* PDFFormAnalyzer.analyze_form (main.py)
\* ------------------------------------------------------------------------

\* word.capitalize() of the host labels of the model.
Capitalize(w) ==
    CASE w = "irs" -> "Irs"
      [] w = "example" -> "Example"
      [] w = "formsportal" -> "Formsportal"
      [] w = "www" -> "Www"
      [] w = "jpmorganchase" -> "Jpmorganchase"
      [] OTHER -> w

\* name_part.startswith('nb') or name_part.startswith('www')
HasHostPrefix(label) == label = "www"

\* extract_entity_name_from_url: the second-level label of the host (the
\* third when the second starts with nb or www), capitalized, when it has
\* more than two letters.
extract_entity_name_from_url(url) ==
    LET domain_parts == url
        n == Len(domain_parts)
        name_part == IF HasHostPrefix(domain_parts[n - 1]) /\ n > 2
                     THEN domain_parts[n - 2] ELSE domain_parts[n - 1]
    IN IF HostContains(url, <<"fidelity">>) THEN "Fidelity Investments"
       ELSE IF HostContains(url, <<"vanguard">>) THEN "Vanguard"
       ELSE IF n > 1 /\ WordLen(Lower(name_part)) > 2 THEN Capitalize(name_part)
       ELSE "Unknown Entity"

\* analyze_form under the choices of one run. Its detectors are other
\* code than analyze_one's; of the result of a run that does not raise, the
\* model keeps the locator, the id, the timestamp and the page count.
analyze_form(d, run) ==
    IF DownloadRaises(d) \/ ~d.opens
    THEN [url |-> d.url,
          status |-> "error",
          error_message |-> IF DownloadRaises(d) THEN "download failed"
                            ELSE "cannot read document",
          entity_name |-> extract_entity_name_from_url(d.url),
          analysis_id |-> run.rid,
          timestamp |-> run.now]
    ELSE [url |-> d.url, analysis_id |-> run.rid, timestamp |-> run.now,
          page_count |-> Len(d.pages), status |-> "success"]

\* ------------------------------------------------------------------------
\* host_domain_info on its own: inputs drawn from bounded sets
\* ------------------------------------------------------------------------

\* load_brand_config's built-in registry.
BuiltinBrands ==
    <<BrandEntry("Fidelity Investments", <<<<"fidelity", "com">>, <<"fmr", "com">>>>),
      BrandEntry("Charles Schwab", <<<<"schwab", "com">>, <<"schwabcdn", "com">>>>),
      BrandEntry("Vanguard", <<<<"vanguard", "com">>>>),
      BrandEntry("JPMorgan Chase", <<<<"chase", "com">>, <<"jpmorganchase", "com">>,
                                     <<"jpmorgan", "com">>>>),
      BrandEntry("Cigna", <<<<"cigna", "com">>>>),
      BrandEntry("Aetna", <<<<"aetna", "com">>>>),
      BrandEntry("UnitedHealthcare", <<<<"uhc", "com">>, <<"optum", "com">>>>),
      BrandEntry("GSA", <<<<"gsa", "gov">>>>),
      BrandEntry("USCIS", <<<<"uscis", "gov">>>>),
      BrandEntry("IRS", <<<<"irs", "gov">>, <<"treasury", "gov">>>>),
      BrandEntry("SSA", <<<<"ssa", "gov">>>>),
      BrandEntry("U.S. Bank", <<<<"usbank", "com">>>>),
      BrandEntry("PNC", <<<<"pnc", "com">>>>),
      BrandEntry("Bank of America", <<<<"bankofamerica", "com">>, <<"bofa", "com">>>>),
      BrandEntry("Morgan Stanley", <<<<"morganstanley", "com">>>>)>>

\* The most domains one brand of a configured registry lists.
MaxDomains == 2

RegistryBrands == {"IRS", "Acme Corp"}

RegistryDomains == {<<"irs", "gov">>, <<"example", "com">>, <<"acme", "com">>}

NoRepeat(s) == \A i, j \in 1..Len(s) : i # j => s[i] # s[j]

\* The registries brands.yml can hold: each brand once (a YAML mapping), in
\* either order, a domain possibly under more than one brand. An empty
\* registry is replaced by the built-ins (`out or builtin`).
ConfiguredBrandMaps ==
    {m \in SeqUpTo([brand : RegistryBrands,
                    doms : {d \in SeqUpTo(RegistryDomains, MaxDomains) : NoRepeat(d)}],
                   Cardinality(RegistryBrands)) :
        /\ m # <<>>
        /\ \A i, j \in 1..Len(m) : i # j => m[i].brand # m[j].brand}

SharedDomainMap ==
    <<BrandEntry("IRS", <<<<"example", "com">>>>),
      BrandEntry("Acme Corp", <<<<"example", "com">>, <<"acme", "com">>>>)>>

Hosts ==
    {<<>>,
     <<"formsportal", "example", "com">>,
     <<"example", "com">>,
     <<"www", "irs", "gov">>,
     <<"myirs", "gov">>,
     <<"mycdn", "example", "com">>,
     <<"forms", "example", "co", "uk">>,
     <<"irs", "gov", "example", "com">>}

HostTexts == {<<>>, <<"irs", "form">>, <<"first", "page">>, <<"acme">>}

HostMetas == {<<>>, <<<<"title", <<"irs", "form">>>>>>, <<<<"author", <<"acme", "corp">>>>>>}

HostEntities == {"", "Unknown Entity", "IRS", "Acme Corp"}

\* Every configured registry with no brand hint in text or metadata, and the
\* built-in registry and one with a shared domain with every text and
\* metadata.
HostInputs ==
    [url : Hosts, entity_name : HostEntities, text : {<<>>}, meta : {<<>>},
     brand_map : ConfiguredBrandMaps, tldextract : BOOLEAN]
    \cup
    [url : Hosts, entity_name : HostEntities, text : HostTexts, meta : HostMetas,
     brand_map : {BuiltinBrands, SharedDomainMap}, tldextract : BOOLEAN]

NoHost == [kind |-> "none"]

HostIdle == hostIn = NoHost /\ hostOut = NoHost

\* One call of host_domain_info; the hash seed is the process's.
HostDomainInfo ==
    /\ hostOut = NoHost
    /\ \E seed \in {0, 1} :
         hostOut' = host_domain_info(hostIn.url, hostIn.entity_name, hostIn.text,
                                     hostIn.meta, hostIn.brand_map,
                                     [tldextract |-> hostIn.tldextract, seed |-> seed])
    /\ UNCHANGED <<scoreIn, scoreOut, hostIn, doc, results, formResult, analyzer, threads, detIn, detOut, domain_rate_limits, now, sent, downloading, analyzed_forms, handlers, route_log, crawl>>

\* ------------------------------------------------------------------------
\* The pipeline: documents drawn from bounded sets, each analysed twice by
\* analyze_one and once by analyze_form
\* ------------------------------------------------------------------------

Block(rect, text) == [rect |-> rect, text |-> text]

Line(x0, y, x1) == [kind |-> "l", p0 |-> <<x0, y>>, p1 |-> <<x1, y>>]

Widget(field_type, field_name, tooltip, is_required, rect) ==
    [field_type |-> field_type, field_name |-> field_name, tooltip |-> tooltip,
     is_required |-> is_required, is_signature |-> FALSE, rect |-> rect,
     actions |-> FALSE, broken |-> FALSE]

\* A page whose lookups all work; its character count is that of its text.
Page(blocks, drawings, widgets) ==
    [blocks |-> blocks, blocks_raise |-> FALSE,
     drawings |-> drawings, drawings_raise |-> FALSE,
     widgets |-> widgets, page_js |-> FALSE, images |-> 0,
     chars |-> Chars(Join([n \in 1..Len(blocks) |-> blocks[n].text]))]

EmptyPage == Page(<<>>, <<>>, <<>>)

\* "applicant signature" over a ruled line
SignatureLinePage ==
    Page(<<Block(Rect(50, 100, 200, 112), <<"applicant", "signature">>)>>,
         <<<<Line(50, 115, 300)>>>>, <<>>)

\* "Signature _____": an underscore run, and no role named
UnderlinePage ==
    Page(<<Block(Rect(50, 100, 200, 112), <<"Signature", "_____">>)>>, <<>>, <<>>)

\* "signature of witness" over a ruled line, and a short line that is none
WitnessPage ==
    Page(<<Block(Rect(50, 300, 200, 312), <<"signature", "of", "witness">>)>>,
         <<<<Line(50, 316, 300), Line(50, 340, 100)>>>>, <<>>)

\* running text: notary, PII, a form reference, a deadline, a third party
TextPage ==
    Page(<<Block(Rect(50, 400, 500, 412), <<"notary", "public", "ssn">>),
           Block(Rect(50, 420, 500, 432),
                 <<"see", "form", "w-9", "no", "later", "than", "30", "days",
                   "attach", "attorney">>)>>,
         <<>>, <<>>)

\* a signature widget under its label, an SSN field without label, two radio
\* buttons of one group and an image
WidgetPage ==
    [Page(<<Block(Rect(50, 180, 120, 192), <<"Signature">>)>>, <<>>,
          <<Widget("signature", <<"sig">>, <<>>, TRUE, Rect(50, 200, 250, 220)),
            Widget("text", <<"SSN">>, <<>>, FALSE, Rect(50, 500, 250, 520)),
            Widget("radio", <<"choice", "a">>, <<>>, FALSE, Rect(50, 600, 60, 610)),
            Widget("radio", <<"choice", "b">>, <<>>, FALSE, Rect(80, 600, 90, 610))>>)
     EXCEPT !.images = 1]

\* the text blocks of the page cannot be read
BlocksRaisePage ==
    [Page(<<Block(Rect(50, 100, 200, 112), <<"applicant", "signature">>)>>, <<>>,
          <<Widget("text", <<"SSN">>, <<>>, FALSE, Rect(50, 500, 250, 520))>>)
     EXCEPT !.blocks_raise = TRUE]

\* the drawings of the page cannot be read
DrawingsRaisePage ==
    [Page(<<Block(Rect(50, 100, 200, 112), <<"date">>)>>, <<>>, <<>>)
     EXCEPT !.drawings_raise = TRUE]

\* an SSN field, a widget whose attributes cannot be read, a beneficiary field
BrokenWidgetPage ==
    Page(<<>>, <<>>,
         <<Widget("text", <<"SSN">>, <<>>, FALSE, Rect(50, 500, 250, 520)),
           [Widget("text", <<>>, <<>>, FALSE, Rect(50, 540, 250, 560))
            EXCEPT !.broken = TRUE],
           Widget("text", <<"beneficiary">>, <<>>, TRUE, Rect(50, 580, 250, 600))>>)

\* running text that names a third party of every kind
ThirdPartiesPage ==
    Page(<<Block(Rect(50, 400, 500, 412),
                 <<"witness", "doctor", "broker", "lawyer", "guardian", "employer",
                   "court">>)>>,
         <<>>, <<>>)

PageKinds ==
    {EmptyPage, SignatureLinePage, UnderlinePage, WitnessPage, TextPage, WidgetPage,
     BlocksRaisePage, DrawingsRaisePage, BrokenWidgetPage, ThirdPartiesPage}

\* The most pages a document has.
MaxPages == 2

NoPyhanko == [installed |-> FALSE, raises |-> FALSE, count |-> 0, timestamp |-> FALSE]

PyhankoReads ==
    {NoPyhanko,
     [installed |-> TRUE, raises |-> TRUE, count |-> 0, timestamp |-> FALSE],
     [installed |-> TRUE, raises |-> FALSE, count |-> 0, timestamp |-> FALSE],
     [installed |-> TRUE, raises |-> FALSE, count |-> 1, timestamp |-> FALSE],
     [installed |-> TRUE, raises |-> FALSE, count |-> 1, timestamp |-> TRUE]}

DocUrls ==
    {<<"www", "irs", "gov">>, <<"formsportal", "example", "com">>,
     <<"www", "jpmorganchase", "com">>}

DocMetas ==
    {<<>>, <<<<"title", <<"irs", "form">>>>>>, <<<<"producer", <<"livecycle">>>>>>}

\* A document that downloads and decodes, with the built-in registry.
PlainDoc(pages) ==
    [kind |-> "doc", url |-> <<"www", "irs", "gov">>, download |-> "ok",
     opens |-> TRUE, text_fails |-> FALSE, meta |-> <<>>, pages |-> pages,
     pyhanko |-> NoPyhanko, embedded |-> 0, embedded_raise |-> FALSE,
     doc_js |-> FALSE, has_tldextract |-> FALSE, brand_map |-> BuiltinBrands]

\* Every sequence of pages in a plain document, and for the sequences of at
\* most one page every other document fact changed, one or two at a time.
Docs ==
    {PlainDoc(pages) : pages \in SeqUpTo(PageKinds, MaxPages)}
    \cup
    UNION {LET d == PlainDoc(pages)
           IN {[d EXCEPT !.download = v] : v \in {"flaky", "down"}}
              \cup {[d EXCEPT !.opens = FALSE], [d EXCEPT !.text_fails = TRUE],
                    [d EXCEPT !.embedded = 1], [d EXCEPT !.embedded_raise = TRUE],
                    [d EXCEPT !.doc_js = TRUE], [d EXCEPT !.has_tldextract = TRUE]}
              \cup {[d EXCEPT !.pyhanko = v] : v \in PyhankoReads}
              \cup {[d EXCEPT !.url = u, !.meta = m] : u \in DocUrls, m \in DocMetas}
              \cup {[d EXCEPT !.url = u, !.brand_map = SharedDomainMap] : u \in DocUrls} :
           pages \in SeqUpTo(PageKinds, 1)}

\* The choices of one run: the uuid4 drawn, the clock read, and the hash
\* seed of the interpreter, which orders the iteration over a set. Two runs
\* may or may not agree on them.
Runs == {[rid |-> 1, now |-> 1, seed |-> 0], [rid |-> 2, now |-> 2, seed |-> 1]}

NoForm == [kind |-> "none"]

\* One run of analyze_one over the document.
AnalyzeOne ==
    /\ doc # NoForm
    /\ Len(results) < 2
    /\ \E run \in Runs : results' = Append(results, analyze_one(doc, run))
    /\ UNCHANGED <<scoreIn, scoreOut, hostIn, hostOut, doc, formResult, analyzer, threads, detIn, detOut, domain_rate_limits, now, sent, downloading, analyzed_forms, handlers, route_log, crawl>>

\* One run of analyze_form over the document.
AnalyzeForm ==
    /\ doc # NoForm
    /\ formResult = NoForm
    /\ \E run \in Runs : formResult' = analyze_form(doc, run)
    /\ UNCHANGED <<scoreIn, scoreOut, hostIn, hostOut, doc, results, analyzer, threads, detIn, detOut, domain_rate_limits, now, sent, downloading, analyzed_forms, handlers, route_log, crawl>>

\* ------------------------------------------------------------------------
\* Text normalization, character by character (_normalize_text_for_rules)
\*
\* Here a text is the sequence of its characters, over an alphabet with a
\* lower-case and an upper-case letter, the hyphen, the space and the
\* newline. The detectors above work on the words of the normalized text.
\* ------------------------------------------------------------------------

\* The most pieces a raw text is put together from.
MaxRawPieces == 5

\* The pieces of the raw texts: a character, or a hyphen at a line's end.
RawPieces == {<<"a">>, <<"B">>, <<"-">>, <<" ">>, <<"\n">>, <<"-", "\n">>}

\* \w and \s
IsWordChar(c) == c \in {"a", "b", "A", "B"}

IsSpaceChar(c) == c \in {" ", "\n"}

\* str.lower(), one character
LowerChar(c) == CASE c = "A" -> "a" [] c = "B" -> "b" [] OTHER -> c

\* The last index of the run of whitespace that starts at i (i - 1 when
\* there is none): where a greedy \s* started at i ends.
RECURSIVE RunEnd(_, _)
RunEnd(t, i) ==
    IF i <= Len(t) /\ IsSpaceChar(t[i]) THEN RunEnd(t, i + 1) ELSE i - 1

HasNewline(t, i, j) == \E k \in i..j : t[k] = "\n"

\* re.sub(r"(\w)-\s*\n\s*(\w)", r"\1\2", raw): the matches are found left to
\* right and do not overlap; the search goes on after the second \w.
RECURSIVE JoinHyphenBreaks(_, _)
JoinHyphenBreaks(t, i) ==
    IF i > Len(t) THEN <<>>
    ELSE IF /\ IsWordChar(t[i])
            /\ i + 1 <= Len(t)
            /\ t[i + 1] = "-"
            /\ HasNewline(t, i + 2, RunEnd(t, i + 2))
            /\ RunEnd(t, i + 2) + 1 <= Len(t)
            /\ IsWordChar(t[RunEnd(t, i + 2) + 1])
    THEN <<t[i], t[RunEnd(t, i + 2) + 1]>> \o JoinHyphenBreaks(t, RunEnd(t, i + 2) + 2)
    ELSE <<t[i]>> \o JoinHyphenBreaks(t, i + 1)

\* re.sub(r"\s*\n\s*", " ", t) when newline_only, re.sub(r"\s{2,}", " ", t)
\* otherwise: a run of whitespace that holds a newline, or is two or more
\* long, becomes one space.
RECURSIVE CollapseRuns(_, _, _)
CollapseRuns(t, i, newline_only) ==
    IF i > Len(t) THEN <<>>
    ELSE IF ~IsSpaceChar(t[i]) THEN <<t[i]>> \o CollapseRuns(t, i + 1, newline_only)
    ELSE IF (IF newline_only THEN HasNewline(t, i, RunEnd(t, i))
             ELSE RunEnd(t, i) - i + 1 >= 2)
    THEN <<" ">> \o CollapseRuns(t, RunEnd(t, i) + 1, newline_only)
    ELSE SubSeq(t, i, RunEnd(t, i)) \o CollapseRuns(t, RunEnd(t, i) + 1, newline_only)

normalize_text_for_rules(raw) ==
    IF raw = <<>> THEN <<>>
    ELSE CollapseRuns(CollapseRuns(JoinHyphenBreaks(raw, 1), 1, TRUE), 1, FALSE)

\* extract_text: _normalize_text_for_rules(("\n".join(txt)).lower())
NormalizedText(raw) ==
    normalize_text_for_rules([i \in 1..Len(raw) |-> LowerChar(raw[i])])

RawTexts ==
    {[kind |-> "raw_text", raw |-> Join(ps)] : ps \in SeqUpTo(RawPieces, MaxRawPieces)}

NoDet == [kind |-> "none"]

DetIdle == detIn = NoDet /\ detOut = NoDet

\* extract_text normalizes the text of the pages.
NormalizeText ==
    /\ detIn.kind = "raw_text"
    /\ detOut = NoDet
    /\ detOut' = [kind |-> "normalized", text |-> NormalizedText(detIn.raw)]
    /\ UNCHANGED <<scoreIn, scoreOut, hostIn, hostOut, doc, results, formResult, analyzer, threads, detIn, domain_rate_limits, now, sent, downloading, analyzed_forms, handlers, route_log, crawl>>

\* Names, tooltips and nearby labels of a widget handed to the classifier:
\* none, one that no pattern matches, one or two for every class of the
\* table, and halves of "date of birth" that meet only when the three are
\* joined.
FieldTexts ==
    {<<>>, <<"full", "name">>, <<"SSN">>, <<"social", "security">>, <<"tin">>,
     <<"ein">>, <<"employer", "id">>, <<"Date", "of", "birth">>, <<"DOB">>,
     <<"Date">>, <<"Date", "of">>, <<"birth">>, <<"phone">>, <<"e-mail">>,
     <<"zip">>, <<"state">>, <<"routing">>, <<"account">>, <<"amount">>,
     <<"Signature">>, <<"notary">>, <<"witness">>}

FieldInputs ==
    {[kind |-> "field", name |-> n, alt |-> a, label |-> l] :
        n \in FieldTexts, a \in FieldTexts, l \in FieldTexts}

\* _infer_field_class called on the name, tooltip and label of a widget.
InferFieldClass ==
    /\ detIn.kind = "field"
    /\ detOut = NoDet
    /\ detOut' = [kind |-> "field_class",
                  klass |-> infer_field_class(detIn.name, detIn.alt, detIn.label)]
    /\ UNCHANGED <<scoreIn, scoreOut, hostIn, hostOut, doc, results, formResult, analyzer, threads, detIn, domain_rate_limits, now, sent, downloading, analyzed_forms, handlers, route_log, crawl>>

\* A page with one widget of the given name and tooltip, under a block that
\* holds its label.
LabelledWidgetPage(name, alt, label) ==
    Page(IF label = <<>> THEN <<>> ELSE <<Block(Rect(50, 180, 120, 192), label)>>,
         <<>>,
         <<Widget("text", name, alt, FALSE, Rect(50, 200, 250, 220))>>)

\* The body of the widget loop of nigo_design_checks for one widget: its
\* label is looked up, its class inferred and the rules applied.
CheckWidget ==
    /\ detIn.kind = "field"
    /\ detOut = NoDet
    /\ LET page == LabelledWidgetPage(detIn.name, detIn.alt, detIn.label)
           w == page.widgets[1]
       IN detOut' = [kind |-> "widget_findings",
                     label |-> label_near_widget(page, w),
                     klass |-> infer_field_class(w.field_name, w.tooltip,
                                                 label_near_widget(page, w)),
                     findings |-> WidgetFindings(1, page, w)]
    /\ UNCHANGED <<scoreIn, scoreOut, hostIn, hostOut, doc, results, formResult, analyzer, threads, detIn, domain_rate_limits, now, sent, downloading, analyzed_forms, handlers, route_log, crawl>>

\* The most pages of a document handed to the layout estimate.
MaxLayoutPages == 3

\* Pages for the layout estimate: an empty one; one signature block with an
\* underscore run; three signature blocks each over a horizontal line; a
\* signature block with neither, one with a short run and a dated line of
\* underscores; a witness block with an underscore run and no line; a page
\* whose blocks cannot be read; a page whose drawings cannot be read.
LayoutPages ==
    {Page(<<>>, <<>>, <<>>),
     Page(<<Block(Rect(50, 100, 120, 112), <<"Signature", "_____">>)>>, <<>>, <<>>),
     Page(<<Block(Rect(50, 100, 120, 112), <<"Signature">>),
            Block(Rect(50, 200, 120, 212), <<"signature", "of", "spouse">>),
            Block(Rect(50, 300, 120, 312), <<"Signature", "of", "witness">>)>>,
          <<<<Line(50, 115, 250)>>, <<Line(50, 215, 250), Line(50, 315, 250)>>>>, <<>>),
     Page(<<Block(Rect(50, 100, 120, 112), <<"Signature">>),
            Block(Rect(50, 200, 120, 212), <<"signature", "___">>),
            Block(Rect(50, 300, 120, 312), <<"Date", "_____">>)>>, <<>>, <<>>),
     Page(<<Block(Rect(50, 100, 120, 112), <<"witness", "_____">>)>>, <<>>, <<>>),
     [Page(<<>>, <<>>, <<>>) EXCEPT !.blocks_raise = TRUE],
     [Page(<<Block(Rect(50, 100, 120, 112), <<"Signature", "_____">>)>>, <<>>, <<>>)
         EXCEPT !.drawings_raise = TRUE]}

LayoutTexts ==
    {<<>>, <<"sign", "here">>, <<"signature">>,
     <<"signature", "of", "applicant", "signature", "of", "spouse", "signature">>}

LayoutInputs ==
    {[kind |-> "layout", opens |-> o, pages |-> ps, text |-> t] :
        o \in BOOLEAN, ps \in SeqUpTo(LayoutPages, MaxLayoutPages), t \in LayoutTexts}

\* _estimate_text_signatures called on a document and its text.
EstimateTextSignatures ==
    /\ detIn.kind = "layout"
    /\ detOut = NoDet
    /\ detOut' = [kind |-> "text_signatures",
                  est |-> estimate_text_signatures(detIn, detIn.text)]
    /\ UNCHANGED <<scoreIn, scoreOut, hostIn, hostOut, doc, results, formResult, analyzer, threads, detIn, domain_rate_limits, now, sent, downloading, analyzed_forms, handlers, route_log, crawl>>

\* _estimate_witness_signatures called on a document and its text.
EstimateWitnessSignatures ==
    /\ detIn.kind = "layout"
    /\ detOut = NoDet
    /\ detOut' = [kind |-> "witness_signatures",
                  est |-> estimate_witness_signatures(detIn, detIn.text)]
    /\ UNCHANGED <<scoreIn, scoreOut, hostIn, hostOut, doc, results, formResult, analyzer, threads, detIn, domain_rate_limits, now, sent, downloading, analyzed_forms, handlers, route_log, crawl>>

\* ------------------------------------------------------------------------
\* Concurrent requests on the service's analyzer (main.py)
\*
\* The /analyze route calls analyze_form on one module-level PDFFormAnalyzer;
\* the server handles each request in a thread of its own. A call stores its
\* URL in self.current_url, and the title and entity extractors read it back
\* later in the call. A URL is its host labels and the file name of its path.
\* ------------------------------------------------------------------------

\* The requests in progress at once.
MaxThreads == 2

Threads == 1..MaxThreads

Url(host, file) == [host |-> host, file |-> file]

\* self.current_url = None
NoUrl == Url(<<>>, "")

\* What one request's document holds for the two extractors: the title of
\* its metadata, the first title-like line of its text, the entity its
\* metadata or text names ("" where there is none), and whether its
\* download succeeds.
FormRequest(url, meta_title, text_title, entity, download) ==
    [url |-> url, meta_title |-> meta_title, text_title |-> text_title,
     entity |-> entity, download |-> download]

FormRequests ==
    {FormRequest(Url(<<"www", "irs", "gov">>, "f1040.pdf"), "", "", "", "ok"),
     FormRequest(Url(<<"formsportal", "example", "com">>, "w9.pdf"), "", "", "", "ok"),
     FormRequest(Url(<<"www", "jpmorganchase", "com">>, ""), "", "", "", "ok"),
     FormRequest(Url(<<"www", "irs", "gov">>, "f1040.pdf"), "Form 1040", "", "IRS", "ok"),
     FormRequest(Url(<<"formsportal", "example", "com">>, "w9.pdf"), "",
                 "Request for Taxpayer Identification", "", "ok"),
     FormRequest(Url(<<"www", "irs", "gov">>, "f1040.pdf"), "", "", "", "down")}

\* extract_form_title: the metadata title, else a title-like line of the
\* text, else the file name of self.current_url, else "Unknown Form".
extract_form_title(req, current_url) ==
    IF req.meta_title # "" THEN req.meta_title
    ELSE IF req.text_title # "" THEN req.text_title
    ELSE IF current_url # NoUrl /\ current_url.file # "" THEN current_url.file
    ELSE "Unknown Form"

\* extract_entity_name: the entity of the metadata or the text, else the
\* second-level label of self.current_url's host when it is longer than 3
\* letters and the host is not Adobe's, else "Unknown Entity".
extract_entity_name(req, current_url) ==
    LET domain_parts == current_url.host
        n == Len(domain_parts)
    IN IF req.entity # "" THEN req.entity
       ELSE IF /\ current_url # NoUrl
               /\ ~HostContains(domain_parts, <<"acrobat">>)
               /\ ~HostContains(domain_parts, <<"adobe">>)
               /\ n > 1
               /\ WordLen(domain_parts[n - 1]) > 3
       THEN Capitalize(domain_parts[n - 1])
       ELSE "Unknown Entity"

\* financial_domains of PDFFormAnalyzer.extract_entity_name_financial, in
\* the order of the dictionary.
FINANCIAL_DOMAINS ==
    <<<<"fidelity", "Fidelity Investments">>, <<"vanguard", "Vanguard">>,
      <<"schwab", "Charles Schwab">>, <<"americanfunds", "American Funds">>,
      <<"tiaa", "TIAA">>, <<"troweprice", "T. Rowe Price">>,
      <<"etrade", "E*TRADE">>, <<"tdameritrade", "TD Ameritrade">>,
      <<"merrilledge", "Merrill Edge">>, <<"wellsfargo", "Wells Fargo">>,
      <<"chase", "JPMorgan Chase">>, <<"citi", "Citibank">>,
      <<"bankofamerica", "Bank of America">>, <<"morgan", "Morgan Stanley">>,
      <<"pnc", "PNC Bank">>>>

\* PDFFormAnalyzer.extract_entity_name_financial(text, metadata, url): the
\* first financial key in the URL, else extract_entity_name, else (no text
\* of the model matches the financial patterns) the name from the URL.
form_entity_name_financial(req, current_url) ==
    LET hits == {i \in 1..Len(FINANCIAL_DOMAINS) :
                    HostContains(req.url.host, <<FINANCIAL_DOMAINS[i][1]>>)}
        entity == extract_entity_name(req, current_url)
    IN IF hits # {} THEN FINANCIAL_DOMAINS[CHOOSE i \in hits : \A j \in hits : i <= j][2]
       ELSE IF entity # "Unknown Entity" THEN entity
       ELSE extract_entity_name_from_url(req.url.host)

NoResult == [kind |-> "none"]

Thread(pc, req, form_title, result) ==
    [pc |-> pc, req |-> req, form_title |-> form_title, result |-> result]

\* analyze_form: self.current_url = pdf_url
SetCurrentUrl(t) ==
    /\ threads[t].pc = "start"
    /\ analyzer' = [analyzer EXCEPT !.current_url = threads[t].req.url]
    /\ threads' = [threads EXCEPT ![t].pc = "download"]
    /\ UNCHANGED <<scoreIn, scoreOut, hostIn, hostOut, doc, results, formResult, detIn, detOut, domain_rate_limits, now, sent, downloading, analyzed_forms, handlers, route_log, crawl>>

\* analyze_form: the download, its three attempts; a download that fails
\* ends the call in the error result.
DownloadPdf(t) ==
    /\ threads[t].pc = "download"
    /\ threads' =
         [threads EXCEPT ![t] =
            IF threads[t].req.download = "ok"
            THEN [@ EXCEPT !.pc = "title"]
            ELSE [@ EXCEPT !.pc = "done",
                           !.result =
                              [url |-> threads[t].req.url,
                               status |-> "error",
                               error_message |-> "download failed",
                               entity_name |->
                                  extract_entity_name_from_url(threads[t].req.url.host)]]]
    /\ UNCHANGED <<scoreIn, scoreOut, hostIn, hostOut, doc, results, formResult, analyzer, detIn, detOut, domain_rate_limits, now, sent, downloading, analyzed_forms, handlers, route_log, crawl>>

\* analyze_form: form_title = self.extract_form_title(text, metadata)
ExtractFormTitle(t) ==
    /\ threads[t].pc = "title"
    /\ threads' = [threads EXCEPT
                     ![t].pc = "entity",
                     ![t].form_title =
                        extract_form_title(threads[t].req, analyzer.current_url)]
    /\ UNCHANGED <<scoreIn, scoreOut, hostIn, hostOut, doc, results, formResult, analyzer, detIn, detOut, domain_rate_limits, now, sent, downloading, analyzed_forms, handlers, route_log, crawl>>

\* analyze_form: entity_name = self.extract_entity_name_financial(...), and
\* the result compiled from what the call computed.
ExtractEntityAndReturn(t) ==
    /\ threads[t].pc = "entity"
    /\ threads' = [threads EXCEPT
                     ![t].pc = "done",
                     ![t].result =
                        [url |-> threads[t].req.url,
                         status |-> "success",
                         form_title |-> threads[t].form_title,
                         entity_name |->
                            form_entity_name_financial(threads[t].req,
                                                       analyzer.current_url)]]
    /\ UNCHANGED <<scoreIn, scoreOut, hostIn, hostOut, doc, results, formResult, analyzer, detIn, detOut, domain_rate_limits, now, sent, downloading, analyzed_forms, handlers, route_log, crawl>>

\* No request is in progress.
ServiceIdle == analyzer = [current_url |-> NoUrl] /\ threads = <<>>

\* ------------------------------------------------------------------------
\* Domain rate limiting and download_pdf (main.py)
\*
\* Time is in whole seconds. A call of download_pdf runs from its rate-limit
\* check to its return or exception, one request at a time; time.sleep moves
\* the clock.
\* ------------------------------------------------------------------------

\* DEFAULT_RATE_LIMIT; the backoff factor 1.0 and its doubles are whole.
DEFAULT_RATE_LIMIT ==
    [max_requests |-> 5, window |-> 60, requests |-> <<>>, backoff_factor |-> 1]

\* domain_rate_limits = {}
NoLimits == [d \in {} |-> DEFAULT_RATE_LIMIT]

\* domain_rate_limits after `if domain not in domain_rate_limits: ...`
Tracked(limits, domain) ==
    IF domain \in DOMAIN limits THEN limits
    ELSE [d \in DOMAIN limits \cup {domain} |->
            IF d = domain THEN DEFAULT_RATE_LIMIT ELSE limits[d]]

\* check_rate_limit(domain) at time t: the registry after the call, whether
\* the request is allowed, and the wait_time.
check_rate_limit(limits, domain, t) ==
    LET rate_limit == Tracked(limits, domain)[domain]
        recent == SelectSeq(rate_limit.requests, LAMBDA r : t - r < rate_limit.window)
        pruned == [Tracked(limits, domain) EXCEPT ![domain].requests = recent]
    IN IF Len(recent) >= rate_limit.max_requests
       THEN [limits |-> pruned, allowed |-> FALSE,
             wait_time |-> Max(rate_limit.window - (t - recent[1]), 0)
                              * rate_limit.backoff_factor]
       ELSE [limits |-> [pruned EXCEPT ![domain].requests = Append(recent, t)],
             allowed |-> TRUE, wait_time |-> 0]

\* A slip the cap of the backoff must not survive: doubled without a cap.
rate_limit_exceeded_uncapped(limits, domain) ==
    IF domain \in DOMAIN limits
    THEN [limits EXCEPT ![domain].backoff_factor = @ * 2]
    ELSE limits

\* rate_limit_exceeded(domain)
rate_limit_exceeded(limits, domain) ==
    IF domain \in DOMAIN limits
    THEN [limits EXCEPT ![domain].backoff_factor = Min(@ * 2, 10)]
    ELSE limits

\* The netloc of the URLs requested, and of the PDFs downloaded.
Domains == {"a.example", "b.example"}

DownloadDomains == {"a.example"}

\* What requests.get comes to: a PDF, a page that is no PDF, a PDF that
\* PyPDF2 cannot read, 429 without Retry-After, with an HTTP date and with
\* a negative number of seconds, another status, a network error.
Responses ==
    {"pdf", "not_pdf", "broken_pdf", "429", "429_date", "429_negative", "500",
     "network_error"}

\* The steps a caller of the limiter takes and the seconds on the clock.
MaxCalls == 7

MaxDownloads == 2

MaxClock == 700

\* The pauses of a caller between two calls.
Pauses == {1, 60}

max_retries == 5

retry_delay == 1

RECURSIVE Pow2(_)
Pow2(n) == IF n = 0 THEN 1 ELSE 2 * Pow2(n - 1)

\* A slip the retry loop must not survive: the last attempt retried too.
RetryAllowed_always(attempt) == TRUE

\* `attempt < max_retries - 1`
RetryAllowed(attempt) == attempt < max_retries - 1

\* wait_seconds of a 429 response: the Retry-After header as a number, 30
\* when it is a date, else exponential backoff.
RetryAfter(resp, attempt) ==
    CASE resp = "429_date" -> 30
      [] resp = "429_negative" -> 0 - 1
      [] OTHER -> retry_delay * Pow2(attempt)

\* One pass of the retry loop on a response: what the pass does ("sleep"
\* and go on, "raise", "return") and the seconds it sleeps. time.sleep
\* raises ValueError on a negative number.
Attempt(resp, attempt) ==
    CASE resp \in {"429", "429_date", "429_negative"} ->
            IF RetryAllowed(attempt)
            THEN IF RetryAfter(resp, attempt) < 0
                 THEN [does |-> "raise", sleep |-> 0]
                 ELSE [does |-> "sleep", sleep |-> RetryAfter(resp, attempt)]
            ELSE [does |-> "raise", sleep |-> 0]
      [] resp \in {"500", "network_error"} ->
            IF RetryAllowed(attempt)
            THEN [does |-> "sleep", sleep |-> retry_delay * Pow2(attempt)]
            ELSE [does |-> "raise", sleep |-> 0]
      [] resp \in {"not_pdf", "broken_pdf"} -> [does |-> "raise", sleep |-> 0]
      [] resp = "pdf" -> [does |-> "return", sleep |-> 0]

NoDownload ==
    [pc |-> "idle", domain |-> "", attempt |-> 0, requests |-> 0, last |-> "",
     calls |-> 0, downloads |-> 0]

LimiterIdle ==
    /\ domain_rate_limits = NoLimits
    /\ now = 0
    /\ sent = [d \in Domains |-> <<>>]
    /\ downloading = NoDownload

\* The requests of the last window, with one sent at time t.
SentWith(log, t) == Append(SelectSeq(log, LAMBDA r : t - r < DEFAULT_RATE_LIMIT.window), t)

\* download_pdf up to the retry loop: the rate-limit check, and the sleep
\* when the request is not allowed.
BeginDownload ==
    /\ downloading.pc \in {"idle", "returned", "raised", "returned_none"}
    /\ downloading.calls < MaxCalls
    /\ downloading.downloads < MaxDownloads
    /\ \E domain \in DownloadDomains :
         LET chk == check_rate_limit(domain_rate_limits, domain, now)
         IN /\ now + chk.wait_time <= MaxClock
            /\ domain_rate_limits' = chk.limits
            /\ now' = now + chk.wait_time
            /\ downloading' = [pc |-> "attempt", domain |-> domain, attempt |-> 0,
                            requests |-> 0, last |-> "",
                            calls |-> downloading.calls + 1,
                            downloads |-> downloading.downloads + 1]
    /\ UNCHANGED <<scoreIn, scoreOut, hostIn, hostOut, doc, results, formResult, analyzer, threads, detIn, detOut, sent, analyzed_forms, handlers, route_log, crawl>>

\* One pass of the retry loop of download_pdf: the request, and what the
\* response leads to.
SendRequest ==
    /\ downloading.pc = "attempt"
    /\ \E resp \in Responses :
         LET pass == Attempt(resp, downloading.attempt)
         IN /\ sent' = [sent EXCEPT ![downloading.domain] = SentWith(@, now)]
            /\ domain_rate_limits' =
                  IF resp \in {"429", "429_date", "429_negative"}
                  THEN rate_limit_exceeded(domain_rate_limits, downloading.domain)
                  ELSE domain_rate_limits
            /\ now' = now + pass.sleep
            /\ downloading' =
                  [downloading EXCEPT
                     !.requests = @ + 1,
                     !.last = resp,
                     !.attempt = @ + 1,
                     !.pc = CASE pass.does = "raise" -> "raised"
                              [] pass.does = "return" -> "returned"
                              [] pass.does = "sleep" /\ downloading.attempt + 1 < max_retries
                                    -> "attempt"
                              [] OTHER -> "returned_none"]
    /\ UNCHANGED <<scoreIn, scoreOut, hostIn, hostOut, doc, results, formResult, analyzer, threads, detIn, detOut, analyzed_forms, handlers, route_log, crawl>>

\* Another guarded operation (a page fetch, a robots.txt check) asks the
\* limiter for the domain.
CheckRateLimit ==
    /\ downloading.pc # "attempt"
    /\ downloading.calls < MaxCalls
    /\ \E domain \in Domains :
         /\ domain_rate_limits' = check_rate_limit(domain_rate_limits, domain, now).limits
         /\ downloading' = [downloading EXCEPT !.calls = @ + 1, !.domain = domain,
                                               !.last = "check_rate_limit"]
    /\ UNCHANGED <<scoreIn, scoreOut, hostIn, hostOut, doc, results, formResult, analyzer, threads, detIn, detOut, now, sent, analyzed_forms, handlers, route_log, crawl>>

\* rate_limit_exceeded called for a domain.
RateLimitExceeded ==
    /\ downloading.pc # "attempt"
    /\ downloading.calls < MaxCalls
    /\ \E domain \in Domains :
         /\ domain_rate_limits' = rate_limit_exceeded(domain_rate_limits, domain)
         /\ downloading' = [downloading EXCEPT !.calls = @ + 1, !.domain = domain,
                                               !.last = "rate_limit_exceeded"]
    /\ UNCHANGED <<scoreIn, scoreOut, hostIn, hostOut, doc, results, formResult, analyzer, threads, detIn, detOut, now, sent, analyzed_forms, handlers, route_log, crawl>>

\* POST /admin/clear_rate_limits
ClearRateLimits ==
    /\ downloading.pc # "attempt"
    /\ downloading.calls < MaxCalls
    /\ domain_rate_limits # NoLimits
    /\ domain_rate_limits' = NoLimits
    /\ downloading' = [downloading EXCEPT !.calls = @ + 1, !.domain = "",
                                          !.last = "clear_rate_limits"]
    /\ UNCHANGED <<scoreIn, scoreOut, hostIn, hostOut, doc, results, formResult, analyzer, threads, detIn, detOut, now, sent, analyzed_forms, handlers, route_log, crawl>>

\* Time passes between two calls.
Pause ==
    /\ downloading.pc # "attempt"
    /\ downloading.calls < MaxCalls
    /\ \E p \in Pauses : now + p <= MaxClock /\ now' = now + p
    /\ downloading' = [downloading EXCEPT !.calls = @ + 1, !.domain = "", !.last = "sleep"]
    /\ UNCHANGED <<scoreIn, scoreOut, hostIn, hostOut, doc, results, formResult, analyzer, threads, detIn, detOut, domain_rate_limits, sent, analyzed_forms, handlers, route_log, crawl>>

\* ------------------------------------------------------------------------
\* The list of analysed forms and the routes that fill it (main.py)
\*
\* The development server serves each request on a thread of its own. A
\* handler saves a result in two statements,
\*     analyzed_forms.insert(0, results)
\*     analyzed_forms = analyzed_forms[:500]
\* and another thread may run between the insert, the evaluation of the
\* slice and the assignment to the global.
\* ------------------------------------------------------------------------

\* analyzed_forms[:500]
KEPT_FORMS == 500

Handlers == {"h1", "h2"}

\* The most requests received in all, and the most URLs of one batch.
MaxRequests == 3

MaxBatch == 2

\* The URLs of a request: one whose analysis succeeds, one whose analysis
\* returns an error result, one without scheme and host.
RouteUrls == {"https://a.example/ok.pdf", "https://a.example/bad.pdf", "ok.pdf"}

ValidUrl(url) == url # "ok.pdf"

\* What the route reads of analyzer.analyze_form(url): its status. id is the
\* position of the result among all inserts, 0 until it is inserted.
RouteResult(url) ==
    [id |-> 0, url |-> url,
     status |-> IF url = "https://a.example/ok.pdf" THEN "success" ELSE "error"]

\* n results saved earlier, the newest first.
StoredForms(n) ==
    [i \in 1..n |-> [id |-> 0 - i, url |-> "https://a.example/ok.pdf", status |-> "success"]]

NoHandler ==
    [pc |-> "idle", route |-> "", urls |-> <<>>, result |-> RouteResult(""),
     copy |-> <<>>, batch_results |-> <<>>]

RoutesIdle ==
    /\ analyzed_forms = <<>>
    /\ handlers = [h \in Handlers |-> NoHandler]
    /\ route_log = [requests |-> 0, inserts |-> 0]

\* A request arrives: /analyze with one URL, /batch_analyze with a list.
Receive(h) ==
    /\ handlers[h].pc = "idle"
    /\ route_log.requests < MaxRequests
    /\ \E route \in {"analyze", "batch_analyze"} :
       \E urls \in SeqUpTo(RouteUrls, MaxBatch) :
          /\ route = "analyze" => Len(urls) = 1
          /\ handlers' = [handlers EXCEPT ![h] =
                 [NoHandler EXCEPT !.pc = IF urls = <<>> THEN "responded" ELSE "analyzing",
                                   !.route = route, !.urls = urls]]
    /\ route_log' = [route_log EXCEPT !.requests = @ + 1]
    /\ UNCHANGED <<scoreIn, scoreOut, hostIn, hostOut, doc, results, formResult, analyzer, threads, detIn, detOut, domain_rate_limits, now, sent, downloading, analyzed_forms, crawl>>

\* Where the handler goes once the URL at hand is dealt with: the next URL
\* of the batch, or the response.
AfterUrl(hd, result) ==
    [hd EXCEPT !.urls = Tail(@),
               !.batch_results = Append(@, result),
               !.pc = IF Len(hd.urls) > 1 THEN "analyzing" ELSE "responded"]

\* The URL at hand is validated and analysed. An invalid URL ends /analyze
\* with status 400 and is an error entry of the batch; an error result is
\* returned and not saved.
AnalyzeUrl(h) ==
    /\ handlers[h].pc = "analyzing"
    /\ LET url == Head(handlers[h].urls)
           result == RouteResult(url)
       IN handlers' = [handlers EXCEPT ![h] =
              IF ValidUrl(url) /\ result.status # "error"
              THEN [@ EXCEPT !.pc = "insert", !.result = result]
              ELSE AfterUrl(@, [result EXCEPT !.status = "error"])]
    /\ UNCHANGED <<scoreIn, scoreOut, hostIn, hostOut, doc, results, formResult, analyzer, threads, detIn, detOut, domain_rate_limits, now, sent, downloading, analyzed_forms, route_log, crawl>>

\* analyzed_forms.insert(0, results)
InsertForm(h) ==
    /\ handlers[h].pc = "insert"
    /\ LET saved == [handlers[h].result EXCEPT !.id = route_log.inserts + 1]
       IN /\ analyzed_forms' = <<saved>> \o analyzed_forms
          /\ handlers' = [handlers EXCEPT ![h].pc = "slice", ![h].result = saved]
    /\ route_log' = [route_log EXCEPT !.inserts = @ + 1]
    /\ UNCHANGED <<scoreIn, scoreOut, hostIn, hostOut, doc, results, formResult, analyzer, threads, detIn, detOut, domain_rate_limits, now, sent, downloading, crawl>>

\* analyzed_forms[:500], evaluated
SliceForms(h) ==
    /\ handlers[h].pc = "slice"
    /\ handlers' = [handlers EXCEPT
                       ![h].pc = "store",
                       ![h].copy = SubSeq(analyzed_forms, 1,
                                          Min(Len(analyzed_forms), KEPT_FORMS))]
    /\ UNCHANGED <<scoreIn, scoreOut, hostIn, hostOut, doc, results, formResult, analyzer, threads, detIn, detOut, domain_rate_limits, now, sent, downloading, analyzed_forms, route_log, crawl>>

\* analyzed_forms = <the slice>
StoreForms(h) ==
    /\ handlers[h].pc = "store"
    /\ analyzed_forms' = handlers[h].copy
    /\ handlers' = [handlers EXCEPT ![h] = AfterUrl([@ EXCEPT !.copy = <<>>], @.result)]
    /\ UNCHANGED <<scoreIn, scoreOut, hostIn, hostOut, doc, results, formResult, analyzer, threads, detIn, detOut, domain_rate_limits, now, sent, downloading, route_log, crawl>>

\* The response is sent and the thread is free for the next request.
Respond(h) ==
    /\ handlers[h].pc = "responded"
    /\ handlers' = [handlers EXCEPT ![h] = NoHandler]
    /\ UNCHANGED <<scoreIn, scoreOut, hostIn, hostOut, doc, results, formResult, analyzer, threads, detIn, detOut, domain_rate_limits, now, sent, downloading, analyzed_forms, route_log, crawl>>

\* ------------------------------------------------------------------------
\* The crawlers (main.py, credit_union_crawler.py, playwright_crawler.py)
\*
\* A site is what its server answers: for every URL the page a GET returns
\* (status 200 or not, and the <a> links of the HTML), where a redirect
\* leads, and which URLs are served as application/pdf. One step of the
\* model is one turn of a crawler's loop.
\* ------------------------------------------------------------------------

Start == "https://cu.example/"

FormsPage == "https://cu.example/forms/"

About == "https://cu.example/about"

Members == "https://cu.example/member-news"

Apply == "https://cu.example/apply"

Doc1 == "https://cu.example/doc1"

Doc2 == "https://cu.example/doc2"

PdfA == "https://cu.example/form-a.pdf"

PdfB == "https://cu.example/form-b.pdf"

PdfC == "https://cu.example/form-c.pdf"

Offsite == "https://other.example/forms/"

Urls == {Start, FormsPage, About, Members, Apply, Doc1, Doc2, PdfA, PdfB, PdfC, Offsite}

\* url.lower().endswith('.pdf')
EndsWithPdf(u) == u \in {PdfA, PdfB, PdfC}

\* urlparse(url).netloc
Netloc(u) == IF u = Offsite THEN "other.example" ELSE "cu.example"

\* re.search(pattern, url) for a pattern of form_patterns: /forms?/ and
\* member are the ones the URLs of the model hold.
MatchesFormPattern(u) == u \in {FormsPage, Offsite, Members}

\* `pattern in full_url.lower()`: the pattern text as a substring, which
\* only the patterns without regex syntax (resource, member) can be.
HoldsFormPatternText(u) == u = Members

\* A link text with one of the form keywords (both crawlers list
\* "application").
FormText == "loan application"

\* `indicator in full_url_lower` for the pdf_indicators of the /crawl route:
\* .pdf and form are the ones the URLs of the model hold.
HasPdfIndicator(u) == EndsWithPdf(u) \/ u \in {FormsPage, Offsite}

\* WebCrawler._is_pdf_url
is_pdf_url(u) == EndsWithPdf(u)

Href(u) == [url |-> u, text |-> ""]

HrefText(u, text) == [url |-> u, text |-> text]

WebPage(links) == [ok |-> TRUE, links |-> links]

NotFound == [ok |-> FALSE, links |-> <<>>]

\* A site from the pages it serves as HTML and its redirects; a .pdf URL is
\* served as application/pdf, anything else is not found.
Site(pages, redirects) ==
    [pages |-> [u \in Urls |-> IF u \in DOMAIN pages THEN pages[u]
                               ELSE IF EndsWithPdf(u) THEN WebPage(<<>>) ELSE NotFound],
     target |-> [u \in Urls |-> IF u \in DOMAIN redirects THEN redirects[u] ELSE u]]

NoRedirects == [u \in {} |-> Start]

\* three PDFs on the start page, and a page that links back
PdfRichSite ==
    Site(Start :> WebPage(<<Href(PdfA), Href(PdfB), Href(PdfC), Href(About)>>)
         @@ About :> WebPage(<<Href(Start), Href(PdfA)>>),
         NoRedirects)

\* a link named as a form that is an HTML page, and a forms page
FormLinkSite ==
    Site(Start :> WebPage(<<HrefText(Apply, FormText), Href(FormsPage)>>)
         @@ FormsPage :> WebPage(<<Href(PdfB), Href(Start), Href(Apply)>>)
         @@ Apply :> WebPage(<<Href(PdfC)>>),
         NoRedirects)

\* a page that is not found, a link off the domain, and a members page
FailingSite ==
    Site(Start :> WebPage(<<Href(About), Href(Offsite), Href(Members)>>)
         @@ Members :> WebPage(<<Href(About), Href(Start)>>)
         @@ Offsite :> WebPage(<<Href(PdfA)>>),
         NoRedirects)

\* two links named as forms that redirect to one PDF
RedirectSite ==
    Site(Start :> WebPage(<<HrefText(Doc1, FormText), HrefText(Doc2, FormText)>>),
         Doc1 :> PdfA @@ Doc2 :> PdfA)

Sites == {PdfRichSite, FormLinkSite, FailingSite, RedirectSite}

\* The response to a GET that follows redirects, and whether it is served
\* as application/pdf.
Get(site, u) == site.pages[site.target[u]]

ServedAsPdf(site, u) == EndsWithPdf(site.target[u])

\* The values of max_pdfs and max_depth a request asks for.
RequestedPdfs == {1, 2, 60}

RequestedDepths == {0, 1, 5}

MAX_PDFS_CAP == 50

MAX_DEPTH_CAP == 3

NoCrawl ==
    [pc |-> "idle", site |-> PdfRichSite, cu_available |-> FALSE,
     include_subpages |-> FALSE, enable_js |-> FALSE, max_pdfs |-> 0, max_depth |-> 0,
     to_visit |-> <<>>, visited |-> {}, pages |-> 0, found |-> <<>>, fetched |-> <<>>,
     deepest |-> 0, source |-> "", response |-> <<>>]

CrawlIdle == crawl = NoCrawl

QueueUrls(to_visit) == {to_visit[i][1] : i \in 1..Len(to_visit)}

\* A crawler starts: its queue holds the start URL at depth 0, and nothing
\* is fetched yet.
StartCrawler(c, pc) ==
    [c EXCEPT !.pc = pc, !.source = pc, !.to_visit = <<<<Start, 0>>>>, !.visited = {},
              !.pages = 0, !.found = <<>>, !.fetched = <<>>, !.deepest = 0]

\* What /crawl does once the credit-union crawler found nothing or is not
\* there: WebCrawler with JavaScript if asked for, else the loop of the
\* route itself.
AfterCreditUnion(c) == StartCrawler(c, IF c.enable_js THEN "web" ELSE "enhanced")

\* POST /crawl: the parameters are read and capped, and the credit-union
\* crawler is tried first if its module could be imported.
CrawlRequest ==
    /\ crawl.pc = "idle"
    /\ \E site \in Sites, pdfs \in RequestedPdfs, depth \in RequestedDepths,
          include_subpages \in BOOLEAN, enable_js \in BOOLEAN, cu_available \in BOOLEAN :
          LET c == [NoCrawl EXCEPT !.site = site, !.cu_available = cu_available,
                                   !.include_subpages = include_subpages,
                                   !.enable_js = enable_js,
                                   !.max_pdfs = Min(pdfs, MAX_PDFS_CAP),
                                   !.max_depth = Min(depth, MAX_DEPTH_CAP)]
          IN crawl' = IF cu_available THEN StartCrawler(c, "cu") ELSE AfterCreditUnion(c)
    /\ UNCHANGED <<scoreIn, scoreOut, hostIn, hostOut, doc, results, formResult, analyzer, threads, detIn, detOut, domain_rate_limits, now, sent, downloading, analyzed_forms, handlers, route_log>>

\* A GET of u by the crawler, at the depth the crawler is at.
Fetched(c, u, depth) ==
    [c EXCEPT !.fetched = Append(@, u), !.deepest = Max(@, depth)]

\* ---- CreditUnionFormCrawler

\* should_visit
should_visit(c, u) == Netloc(u) = Netloc(Start) /\ u \notin c.visited

\* extract_form_links over the <a> elements: links to .pdf, links whose text
\* holds a form keyword, links whose URL matches a form pattern. The order
\* of list(set(...)) is taken as that of the page.
extract_form_links(page) ==
    LET hit == SelectSeq(page.links,
                         LAMBDA a : \/ EndsWithPdf(a.url)
                                    \/ a.text = FormText
                                    \/ MatchesFormPattern(a.url))
    IN Dedup([i \in 1..Len(hit) |-> hit[i].url])

\* The loop over form_links from link k on. verify_pdf_link sends a GET for
\* a link that does not end in .pdf, and extract_filename another for a form
\* whose last path segment is no file name.
RECURSIVE ProcessFormLinks(_, _, _, _)
ProcessFormLinks(form_links, k, c, depth) ==
    IF k > Len(form_links) THEN c
    ELSE LET form_url == form_links[k]
             verified == Fetched(c, form_url, depth + 1)
         IN ProcessFormLinks(form_links, k + 1,
                IF form_url \in Range(c.found) THEN c
                ELSE IF EndsWithPdf(form_url)
                THEN [c EXCEPT !.found = Append(@, form_url)]
                ELSE IF Get(c.site, form_url).ok /\ ServedAsPdf(c.site, form_url)
                THEN [Fetched(verified, form_url, depth + 1)
                         EXCEPT !.found = Append(@, form_url)]
                ELSE IF should_visit(c, form_url) /\ depth < c.max_depth
                THEN [verified EXCEPT !.to_visit = Append(@, <<form_url, depth + 1>>)]
                ELSE verified,
                depth)

\* The loop over all links of the page from link k on.
RECURSIVE QueueLinks(_, _, _, _)
QueueLinks(links, k, c, depth) ==
    IF k > Len(links) THEN c
    ELSE LET full_url == links[k].url
         IN QueueLinks(links, k + 1,
                IF /\ should_visit(c, full_url)
                   /\ full_url \notin c.visited
                   /\ full_url \notin QueueUrls(c.to_visit)
                THEN IF HoldsFormPatternText(full_url)
                     THEN [c EXCEPT !.to_visit = <<<<full_url, depth + 1>>>> \o @]
                     ELSE [c EXCEPT !.to_visit = Append(@, <<full_url, depth + 1>>)]
                ELSE c,
                depth)

\* One turn of the while loop of CreditUnionFormCrawler.crawl.
CreditUnionTurn(c) ==
    LET url == c.to_visit[1][1]
        depth == c.to_visit[1][2]
        popped == [c EXCEPT !.to_visit = Tail(@)]
        response == Get(c.site, url)
        visiting == [Fetched(popped, url, depth)
                        EXCEPT !.visited = @ \cup {url}, !.pages = @ + 1]
    IN IF depth > c.max_depth \/ url \in c.visited THEN popped
       ELSE IF ~response.ok THEN Fetched(popped, url, depth)
       ELSE QueueLinks(response.links, 1,
                ProcessFormLinks(extract_form_links(response), 1, visiting, depth),
                depth)

\* cu_crawler.crawl(max_depth=max_depth, max_pages=max_pdfs)
CreditUnionContinues(c) == c.to_visit # <<>> /\ c.pages < c.max_pdfs

CreditUnionVisit ==
    /\ crawl.pc = "cu"
    /\ CreditUnionContinues(crawl)
    /\ crawl' = CreditUnionTurn(crawl)
    /\ UNCHANGED <<scoreIn, scoreOut, hostIn, hostOut, doc, results, formResult, analyzer, threads, detIn, detOut, domain_rate_limits, now, sent, downloading, analyzed_forms, handlers, route_log>>

\* The crawl is over: /crawl returns the URLs of the forms found, or goes on
\* to the next crawler if there are none.
CreditUnionDone ==
    /\ crawl.pc = "cu"
    /\ ~CreditUnionContinues(crawl)
    /\ crawl' = IF crawl.found # <<>>
                THEN [crawl EXCEPT !.pc = "returned", !.response = crawl.found]
                ELSE AfterCreditUnion(crawl)
    /\ UNCHANGED <<scoreIn, scoreOut, hostIn, hostOut, doc, results, formResult, analyzer, threads, detIn, detOut, domain_rate_limits, now, sent, downloading, analyzed_forms, handlers, route_log>>

\* ---- The crawl loop of the /crawl route itself

ENHANCED_PAGES == 30

\* Method 1 over the links of the page from link k on: a link that ends in
\* .pdf is a PDF; a link with a PDF indicator is asked for with HEAD and is
\* a PDF if it leads to one; other links are queued.
RECURSIVE DirectPdfLinks(_, _, _, _)
DirectPdfLinks(links, k, c, depth) ==
    IF k > Len(links) THEN c
    ELSE LET full_url == links[k].url
             final_url == c.site.target[full_url]
             room == Len(c.found) < c.max_pdfs
             probed == IF /\ HasPdfIndicator(full_url)
                          /\ ServedAsPdf(c.site, full_url)
                          /\ final_url \notin Range(c.found)
                          /\ room
                       THEN [c EXCEPT !.found = Append(@, final_url)]
                       ELSE c
             queued == IF /\ depth < c.max_depth
                          /\ full_url \notin c.visited
                          /\ full_url \notin QueueUrls(c.to_visit)
                       THEN [probed EXCEPT !.to_visit = Append(@, <<full_url, depth + 1>>)]
                       ELSE probed
         IN DirectPdfLinks(links, k + 1,
                IF EndsWithPdf(full_url) /\ full_url \notin Range(c.found) /\ room
                THEN [c EXCEPT !.found = Append(@, full_url)]
                ELSE queued,
                depth)

\* Method 3 over the links from link k on: a link whose text names a form
\* is asked for with HEAD, and where it leads is added if that is a PDF.
RECURSIVE FormTextLinks(_, _, _)
FormTextLinks(links, k, c) ==
    IF k > Len(links) THEN c
    ELSE LET full_url == links[k].url
         IN FormTextLinks(links, k + 1,
                IF /\ links[k].text = FormText
                   /\ full_url \notin Range(c.found)
                   /\ Len(c.found) < c.max_pdfs
                   /\ ServedAsPdf(c.site, full_url)
                THEN [c EXCEPT !.found = Append(@, c.site.target[full_url])]
                ELSE c)

EnhancedTurn(c) ==
    LET url == c.to_visit[1][1]
        depth == c.to_visit[1][2]
        popped == [c EXCEPT !.to_visit = Tail(@)]
        visiting == [Fetched(popped, url, depth)
                        EXCEPT !.visited = @ \cup {url}, !.pages = @ + 1]
        response == Get(c.site, url)
    IN IF url \in c.visited \/ depth > c.max_depth THEN popped
       ELSE IF ~response.ok THEN visiting
       ELSE IF ServedAsPdf(c.site, url)
       THEN IF url \in Range(c.found) THEN visiting
            ELSE [visiting EXCEPT !.found = Append(@, url)]
       ELSE FormTextLinks(response.links, 1,
                          DirectPdfLinks(response.links, 1, visiting, depth))

EnhancedContinues(c) ==
    c.to_visit # <<>> /\ Len(c.found) < c.max_pdfs /\ c.pages < ENHANCED_PAGES

EnhancedVisit ==
    /\ crawl.pc = "enhanced"
    /\ EnhancedContinues(crawl)
    /\ crawl' = EnhancedTurn(crawl)
    /\ UNCHANGED <<scoreIn, scoreOut, hostIn, hostOut, doc, results, formResult, analyzer, threads, detIn, detOut, domain_rate_limits, now, sent, downloading, analyzed_forms, handlers, route_log>>

\* 'pdf_urls': pdfs[:max_pdfs]
EnhancedDone ==
    /\ crawl.pc = "enhanced"
    /\ ~EnhancedContinues(crawl)
    /\ crawl' = [crawl EXCEPT !.pc = "returned",
                              !.response = SubSeq(crawl.found, 1,
                                                  Min(Len(crawl.found), crawl.max_pdfs))]
    /\ UNCHANGED <<scoreIn, scoreOut, hostIn, hostOut, doc, results, formResult, analyzer, threads, detIn, detOut, domain_rate_limits, now, sent, downloading, analyzed_forms, handlers, route_log>>

\* ---- WebCrawler

WEB_PAGES == 100

\* _extract_links_and_pdfs over the <a> elements; a link off the domain is
\* kept when include_subpages is set.
extract_links(c, page) ==
    LET kept == SelectSeq(page.links,
                          LAMBDA a : /\ ~is_pdf_url(a.url)
                                     /\ c.include_subpages \/ Netloc(a.url) = Netloc(Start))
    IN Dedup([i \in 1..Len(kept) |-> kept[i].url])

extract_pdfs(page) ==
    LET kept == SelectSeq(page.links, LAMBDA a : is_pdf_url(a.url))
    IN Dedup([i \in 1..Len(kept) |-> kept[i].url])

RECURSIVE AddPdfs(_, _, _)
AddPdfs(pdfs, k, c) ==
    IF k > Len(pdfs) THEN c
    ELSE AddPdfs(pdfs, k + 1,
                 IF pdfs[k] \notin Range(c.found) /\ Len(c.found) < c.max_pdfs
                 THEN [c EXCEPT !.found = Append(@, pdfs[k])]
                 ELSE c)

RECURSIVE AddLinks(_, _, _, _)
AddLinks(links, k, c, depth) ==
    IF k > Len(links) THEN c
    ELSE AddLinks(links, k + 1,
                  IF links[k] \notin c.visited
                  THEN [c EXCEPT !.to_visit = Append(@, <<links[k], depth + 1>>)]
                  ELSE c,
                  depth)

\* One turn of the loop of _crawl_with_js and of _crawl_without_js; the
\* site has no robots.txt, so every URL is allowed. The fetches recorded are
\* those of pages, not the request for robots.txt that goes before each.
WebCrawlerTurn(c) ==
    LET url == c.to_visit[1][1]
        depth == c.to_visit[1][2]
        popped == [c EXCEPT !.to_visit = Tail(@)]
        visiting == [Fetched(popped, url, depth)
                        EXCEPT !.visited = @ \cup {url}, !.pages = @ + 1]
        response == Get(c.site, url)
        withPdfs == AddPdfs(extract_pdfs(response), 1, visiting)
    IN IF url \in c.visited \/ depth > c.max_depth THEN popped
       ELSE IF ~response.ok THEN visiting
       ELSE IF depth < c.max_depth
       THEN AddLinks(extract_links(c, response), 1, withPdfs, depth)
       ELSE withPdfs

WebCrawlerContinues(c) ==
    c.to_visit # <<>> /\ Len(c.found) < c.max_pdfs /\ c.pages < WEB_PAGES

WebCrawlerVisit ==
    /\ crawl.pc = "web"
    /\ WebCrawlerContinues(crawl)
    /\ crawl' = WebCrawlerTurn(crawl)
    /\ UNCHANGED <<scoreIn, scoreOut, hostIn, hostOut, doc, results, formResult, analyzer, threads, detIn, detOut, domain_rate_limits, now, sent, downloading, analyzed_forms, handlers, route_log>>

\* crawler.crawl() returned: its PDFs are the response, and if there are
\* none the loop of the route is tried.
WebCrawlerDone ==
    /\ crawl.pc = "web"
    /\ ~WebCrawlerContinues(crawl)
    /\ crawl' = IF crawl.found # <<>>
                THEN [crawl EXCEPT !.pc = "returned", !.response = crawl.found]
                ELSE StartCrawler(crawl, "enhanced")
    /\ UNCHANGED <<scoreIn, scoreOut, hostIn, hostOut, doc, results, formResult, analyzer, threads, detIn, detOut, domain_rate_limits, now, sent, downloading, analyzed_forms, handlers, route_log>>

\* ---- crawl_playwright

\* crawl_playwright(start_url, include_subpages, max_depth), called on its
\* own; max_depth is not capped.
PlaywrightCall ==
    /\ crawl.pc = "idle"
    /\ \E site \in Sites, depth \in RequestedDepths, include_subpages \in BOOLEAN :
          crawl' = StartCrawler([NoCrawl EXCEPT !.site = site,
                                                !.include_subpages = include_subpages,
                                                !.max_depth = depth],
                                "playwright")
    /\ UNCHANGED <<scoreIn, scoreOut, hostIn, hostOut, doc, results, formResult, analyzer, threads, detIn, detOut, domain_rate_limits, now, sent, downloading, analyzed_forms, handlers, route_log>>

RECURSIVE AddSameDomain(_, _, _, _)
AddSameDomain(links, k, c, depth) ==
    IF k > Len(links) THEN c
    ELSE AddSameDomain(links, k + 1,
                       IF Netloc(links[k].url) = Netloc(Start)
                       THEN [c EXCEPT !.to_visit = Append(@, <<links[k].url, depth + 1>>)]
                       ELSE c,
                       depth)

PlaywrightTurn(c) ==
    LET url == c.to_visit[1][1]
        depth == c.to_visit[1][2]
        popped == [c EXCEPT !.to_visit = Tail(@)]
        visiting == [Fetched(popped, url, depth)
                        EXCEPT !.visited = @ \cup {url}, !.pages = @ + 1]
        response == Get(c.site, url)
        pdfs == SelectSeq(response.links, LAMBDA a : EndsWithPdf(a.url))
        withPdfs == [visiting EXCEPT
                        !.found = Dedup(@ \o [i \in 1..Len(pdfs) |-> pdfs[i].url])]
    IN IF url \in c.visited \/ depth > c.max_depth THEN popped
       ELSE IF ~response.ok THEN visiting
       ELSE IF c.include_subpages /\ depth < c.max_depth
       THEN AddSameDomain(response.links, 1, withPdfs, depth)
       ELSE withPdfs

PlaywrightVisit ==
    /\ crawl.pc = "playwright"
    /\ crawl.to_visit # <<>>
    /\ crawl' = PlaywrightTurn(crawl)
    /\ UNCHANGED <<scoreIn, scoreOut, hostIn, hostOut, doc, results, formResult, analyzer, threads, detIn, detOut, domain_rate_limits, now, sent, downloading, analyzed_forms, handlers, route_log>>

PlaywrightDone ==
    /\ crawl.pc = "playwright"
    /\ crawl.to_visit = <<>>
    /\ crawl' = [crawl EXCEPT !.pc = "returned_pdfs", !.response = crawl.found]
    /\ UNCHANGED <<scoreIn, scoreOut, hostIn, hostOut, doc, results, formResult, analyzer, threads, detIn, detOut, domain_rate_limits, now, sent, downloading, analyzed_forms, handlers, route_log>>

\* ------------------------------------------------------------------------
\* Specifications of the pure functions
\* ------------------------------------------------------------------------

PipelineIdle == doc = NoForm /\ results = <<>> /\ formResult = NoForm

InitScore ==
    /\ scoreIn \in NigoInputs \cup ComplexityInputs
    /\ scoreOut = NoScore
    /\ HostIdle
    /\ PipelineIdle
    /\ ServiceIdle
    /\ DetIdle
    /\ LimiterIdle
    /\ RoutesIdle
    /\ CrawlIdle

NextScore == CalcNigo \/ CalcComplexity

SpecScore == InitScore /\ [][NextScore]_vars

InitHost ==
    /\ hostIn \in HostInputs
    /\ hostOut = NoHost
    /\ ScoreIdle
    /\ PipelineIdle
    /\ ServiceIdle
    /\ DetIdle
    /\ LimiterIdle
    /\ RoutesIdle
    /\ CrawlIdle

NextHost == HostDomainInfo

SpecHost == InitHost /\ [][NextHost]_vars

\* ------------------------------------------------------------------------
\* Specification of the pipeline
\* ------------------------------------------------------------------------

Init ==
    /\ doc \in Docs
    /\ results = <<>>
    /\ formResult = NoForm
    /\ ScoreIdle
    /\ HostIdle
    /\ ServiceIdle
    /\ DetIdle
    /\ LimiterIdle
    /\ RoutesIdle
    /\ CrawlIdle

Next == AnalyzeOne \/ AnalyzeForm

Spec == Init /\ [][Next]_vars

\* Concurrent requests, each for a document of its own, on an analyzer that
\* has served none yet.
InitService ==
    /\ analyzer = [current_url |-> NoUrl]
    /\ threads \in [Threads -> {Thread("start", req, "", NoResult) : req \in FormRequests}]
    /\ ScoreIdle
    /\ HostIdle
    /\ PipelineIdle
    /\ DetIdle
    /\ LimiterIdle
    /\ RoutesIdle
    /\ CrawlIdle

NextService ==
    \E t \in Threads :
        \/ SetCurrentUrl(t)
        \/ DownloadPdf(t)
        \/ ExtractFormTitle(t)
        \/ ExtractEntityAndReturn(t)

SpecService == InitService /\ [][NextService]_vars

\* The detectors called on their own, on inputs drawn from bounded sets.
InitDetectors ==
    /\ detIn \in RawTexts \cup FieldInputs \cup LayoutInputs
    /\ detOut = NoDet
    /\ ScoreIdle
    /\ HostIdle
    /\ PipelineIdle
    /\ ServiceIdle
    /\ LimiterIdle
    /\ RoutesIdle
    /\ CrawlIdle

NextDetectors ==
    \/ NormalizeText
    \/ InferFieldClass
    \/ CheckWidget
    \/ EstimateTextSignatures
    \/ EstimateWitnessSignatures

SpecDetectors == InitDetectors /\ [][NextDetectors]_vars

\* Calls of the limiter for two domains, from an empty registry.
InitLimiter ==
    /\ LimiterIdle
    /\ ScoreIdle
    /\ HostIdle
    /\ PipelineIdle
    /\ ServiceIdle
    /\ DetIdle
    /\ RoutesIdle
    /\ CrawlIdle

NextLimiter ==
    \/ CheckRateLimit
    \/ RateLimitExceeded
    \/ ClearRateLimits
    \/ Pause

SpecLimiter == InitLimiter /\ [][NextLimiter]_vars

\* Calls of download_pdf for one domain, one after the other. At the first
\* call the registry is empty, or other guarded operations have just used
\* up the window of the domain, at once or half a window ago.
InitDownload ==
    /\ \/ LimiterIdle
       \/ \E t \in {0, 30} :
            /\ domain_rate_limits =
                  [d \in DownloadDomains |->
                     [DEFAULT_RATE_LIMIT EXCEPT !.requests = <<0, 0, 0, 0, 0>>]]
            /\ now = t
            /\ sent = [d \in Domains |->
                         IF d \in DownloadDomains THEN <<0, 0, 0, 0, 0>> ELSE <<>>]
            /\ downloading = NoDownload
    /\ ScoreIdle
    /\ HostIdle
    /\ PipelineIdle
    /\ ServiceIdle
    /\ DetIdle
    /\ RoutesIdle
    /\ CrawlIdle

NextDownload ==
    \/ BeginDownload
    \/ SendRequest

SpecDownload == InitDownload /\ [][NextDownload]_vars

\* Requests to /analyze and /batch_analyze on two threads, with the list
\* empty or one short of full.
InitRoutes ==
    /\ analyzed_forms \in {<<>>, StoredForms(KEPT_FORMS - 1)}
    /\ handlers = [h \in Handlers |-> NoHandler]
    /\ route_log = [requests |-> 0, inserts |-> 0]
    /\ ScoreIdle
    /\ HostIdle
    /\ PipelineIdle
    /\ ServiceIdle
    /\ DetIdle
    /\ LimiterIdle
    /\ CrawlIdle

NextRoutes ==
    \E h \in Handlers :
        \/ Receive(h)
        \/ AnalyzeUrl(h)
        \/ InsertForm(h)
        \/ SliceForms(h)
        \/ StoreForms(h)
        \/ Respond(h)

SpecRoutes == InitRoutes /\ [][NextRoutes]_vars

\* Crawls of four small sites by the /crawl route and by crawl_playwright.
InitCrawl ==
    /\ crawl = NoCrawl
    /\ ScoreIdle
    /\ HostIdle
    /\ PipelineIdle
    /\ ServiceIdle
    /\ DetIdle
    /\ LimiterIdle
    /\ RoutesIdle

NextCrawl ==
    \/ CrawlRequest
    \/ CreditUnionVisit
    \/ CreditUnionDone
    \/ WebCrawlerVisit
    \/ WebCrawlerDone
    \/ EnhancedVisit
    \/ EnhancedDone
    \/ PlaywrightCall
    \/ PlaywrightVisit
    \/ PlaywrightDone

SpecCrawl == InitCrawl /\ [][NextCrawl]_vars

\* ------------------------------------------------------------------------
\* Claims about host_domain_info (SpecHost)
\* ------------------------------------------------------------------------

HostReturned == hostOut # NoHost

\* The registry lists the host's root under the resolved issuer.
RootRegisteredToIssuer ==
    hostOut.host_root \in Range(BrandDomains(hostIn.brand_map, hostOut.issuer_guess))

\* C4: whenever the host's registrable root is registered to the resolved
\* issuer in the brand registry, host_domain_info returns mismatch = false
\* and confidence >= 75, for every registry, one that lists a domain under
\* more than one brand included.
C4_RootRegisteredWins ==
    (HostReturned /\ RootRegisteredToIssuer)
        => (~hostOut.mismatch /\ hostOut.confidence >= 75)

\* C6: a government issuer on the host formsportal.example.com gets
\* mismatch = true, confidence >= 65 and the reason that names the
\* government issuer on a non-government host.
C6_GovIssuerOffDomain ==
    (/\ HostReturned
     /\ hostIn.url = <<"formsportal", "example", "com">>
     /\ hostOut.issuer_guess \in gov_brands)
        => (/\ hostOut.mismatch
            /\ hostOut.confidence >= 65
            /\ hostOut.reason = "Government issuer on non-.gov host.")

\* The last statement of host_domain_info applied: the reverse index holds
\* the host's root under the resolved issuer.
OverrideApplied ==
    RootOverride(hostIn.brand_map, hostOut.host_root, hostOut.issuer_guess)

\* The top-level domain of the host is not gov although the resolved issuer
\* is a government brand.
GovIssuerOffGovTld ==
    /\ hostOut.issuer_guess \in gov_brands
    /\ hostOut.host_domain # <<>>
    /\ hostOut.host_domain[Len(hostOut.host_domain)] # "gov"

\* Below 55 points the mismatch flag is never set.
NoMismatchBelow55 ==
    (HostReturned /\ hostOut.confidence < 55) => ~hostOut.mismatch

\* C16: unless the root-domain override applies, mismatch is true exactly
\* when confidence >= 55 and either no issuer domain matched the host or a
\* government issuer is hosted off a government top-level domain; mismatch
\* is never true below 55.
C16_MismatchRule ==
    /\ NoMismatchBelow55
    /\ (HostReturned /\ ~OverrideApplied)
          => (hostOut.mismatch
                <=> (/\ hostOut.confidence >= 55
                     /\ (\/ hostOut.issuer_domains_matched = <<>>
                         \/ GovIssuerOffGovTld)))

\* The domains the registry lists under the resolved issuer.
IssuerDomains == Range(BrandDomains(hostIn.brand_map, hostOut.issuer_guess))

\* The host is one of the issuer's domains.
ExactHostMatch == hostOut.host_domain \in IssuerDomains

\* Only the registrable root of the host is one of the issuer's domains.
RootOnlyMatch == ~ExactHostMatch /\ hostOut.host_root \in IssuerDomains

StatedConfidenceSum ==
      (IF ExactHostMatch THEN 60 ELSE 0)
    + (IF RootOnlyMatch THEN 25 ELSE 0)
    + (IF hostOut.brand_text_hits # <<>> THEN 15 ELSE 0)
    + (IF hostOut.brand_meta_hits # <<>> THEN 10 ELSE 0)
    - (IF HostOnCdn(hostOut.host_domain) THEN 15 ELSE 0)
    + (IF GovIssuerOffGovTld THEN 10 ELSE 0)

ConfidenceInRange == HostReturned => hostOut.confidence \in 0..100

\* C17: the confidence is the sum, clamped to 0..100, of +60 for a host that
\* is an issuer domain, +25 for a host of which only the registrable root
\* is an issuer domain, +15 for a brand in the text, +10 for a brand in the
\* metadata, -15 for a CDN host and +10 for a government issuer off a
\* government top-level domain (raised to 75 where the root-domain override
\* applies); it is always within 0..100.
C17_ConfidenceSum ==
    /\ ConfidenceInRange
    /\ HostReturned =>
          hostOut.confidence =
              IF OverrideApplied
              THEN Max(75, Max(0, Min(100, StatedConfidenceSum)))
              ELSE Max(0, Min(100, StatedConfidenceSum))

\* ------------------------------------------------------------------------
\* Claims about the scorers (SpecScore)
\* ------------------------------------------------------------------------

\* C1: both scores are integers in 0..100, for any list of findings, any PII
\* flags and any combination of detector outputs.
C1_ScoresInRange ==
    /\ scoreOut.kind = "nigo" => scoreOut.nigo_score \in 0..100
    /\ scoreOut.kind = "complexity" => scoreOut.complexity_score \in 0..100

\* C1's case: detector outputs whose terms add up to more than 100 points,
\* scored.
C1_Witness ==
    /\ scoreOut.kind = "complexity"
    /\ ComplexityTenths(scoreIn.text, scoreIn.fields, scoreIn.pages, scoreIn.sigs,
                        scoreIn.extra) > 1000
    /\ scoreOut.complexity_score = 100

\* The NIGO score as the specification states it: the sum over the findings
\* of severity weight + rule weight + 5 for a high-risk field class, plus 10
\* when any PII is present and some REQ-001 or FMT-001 finding is on a
\* high-risk class, clamped to 0..100.
FindingPoints(r) ==
    SEVERITY_WEIGHTS(r.severity) + RULE_WEIGHTS(r.rule_id)
      + (IF r.field_class \in HIGH_RISK_FIELDS THEN 5 ELSE 0)

RECURSIVE SumPoints(_, _)
SumPoints(findings, n) ==
    IF n = 0 THEN 0 ELSE FindingPoints(findings[n]) + SumPoints(findings, n - 1)

StatedNigoScore(findings, pii) ==
    LET touches == \E i \in 1..Len(findings) :
                      /\ findings[i].rule_id \in {"REQ-001", "FMT-001"}
                      /\ findings[i].field_class \in HIGH_RISK_FIELDS
        total == SumPoints(findings, Len(findings))
                   + (IF pii["any_pii"] /\ touches THEN 10 ELSE 0)
    IN Max(0, Min(100, total))

\* C10: calculate_nigo_score equals the stated formula; a finding of unknown
\* severity or rule id (SYS-ERR, info) adds nothing for that part.
C10_NigoScoreFormula ==
    scoreOut.kind = "nigo" =>
        scoreOut.nigo_score = StatedNigoScore(scoreIn.nigo_risks, scoreIn.pii_flags)

\* C10's case: two high-risk REQ-001/FMT-001 findings and a SYS-ERR finding
\* with PII present, scored below the clamp.
C10_Witness ==
    /\ scoreOut.kind = "nigo"
    /\ scoreIn.pii_flags["any_pii"]
    /\ Cardinality({i \in 1..Len(scoreIn.nigo_risks) :
           /\ scoreIn.nigo_risks[i].rule_id \in {"REQ-001", "FMT-001"}
           /\ scoreIn.nigo_risks[i].field_class \in HIGH_RISK_FIELDS}) >= 2
    /\ \E i \in 1..Len(scoreIn.nigo_risks) : scoreIn.nigo_risks[i].rule_id = "SYS-ERR"
    /\ scoreOut.nigo_score < 100

\* ------------------------------------------------------------------------
\* Claims about the pipeline (Spec)
\* ------------------------------------------------------------------------

Succeeded(r) == r.status = "success"

\* The results returned so far: analyze_one's runs, and analyze_form's.
RunResults == Range(results)

AllResults == RunResults \cup (IF formResult = NoForm THEN {} ELSE {formResult})

\* The document decodes: it is fetched, opened, and its metadata and page
\* count are read.
Decodes == doc.download # "down" /\ doc.opens

\* A result without the two attributes a run may choose freely.
WithoutIdAndTime(r) == [k \in DOMAIN r \ {"analysis_id", "timestamp"} |-> r[k]]

\* Two runs over one document agree on the scores and on the findings and
\* their order.
ScoresAndFindingsRepeat ==
    \A r1, r2 \in RunResults :
        /\ Succeeded(r1) <=> Succeeded(r2)
        /\ Succeeded(r1) /\ Succeeded(r2) =>
              /\ r1.nigo_score = r2.nigo_score
              /\ r1.complexity_score = r2.complexity_score
              /\ r1.nigo_risks = r2.nigo_risks

\* C2: two runs of the analysis over the same document, URL and brand
\* registry return the same nigo_score, the same complexity_score and the
\* same findings in the same order, and nothing but the analysis id and the
\* timestamp differs between the two results.
C2_Determinism ==
    /\ ScoresAndFindingsRepeat
    /\ \A r1, r2 \in RunResults : WithoutIdAndTime(r1) = WithoutIdAndTime(r2)

RoleFindings(r) ==
    SelectSeq(r.nigo_risks, LAMBDA f : f.rule_id = "ROLE-001")

\* The result's signature count is positive and no pattern of ROLE_HINTS is
\* found in the text of the document.
SignedWithoutRole(r) ==
    /\ r.signature_analysis.signature_count > 0
    /\ \A h \in Range(ROLE_HINTS) : ~Matches(extract_text(doc), h.phrases)

\* C3: in a successful result with a positive signature count and no role
\* pattern in the text, roles_required is exactly <<"Unspecified Signer">>
\* and a ROLE-001 finding of severity medium is among the findings; in every
\* other successful result there is no ROLE-001 finding.
C3_UnspecifiedSigner ==
    \A r \in RunResults : Succeeded(r) =>
        IF SignedWithoutRole(r)
        THEN /\ r.roles_required = <<"Unspecified Signer">>
             /\ RoleFindings(r) # <<>>
             /\ \A i \in 1..Len(RoleFindings(r)) : RoleFindings(r)[i].severity = "medium"
        ELSE RoleFindings(r) = <<>>

\* A signed document without a role and one with a role have both been
\* analysed with success.
C3_Witness ==
    \E r \in RunResults :
        /\ Succeeded(r)
        /\ SignedWithoutRole(r)
        /\ r.roles_required = <<"Unspecified Signer">>
        /\ Len(RoleFindings(r)) = 1

\* C5: in every signature profile, a positive layout estimate implies that no
\* signature widget and no digital signature was counted, and the signature
\* count is the sum of the widgets, the digital signatures and the layout
\* estimate.
C5_FallbackOnlyWithoutSignatures ==
    \A r \in RunResults : Succeeded(r) =>
        LET dbg == r.signature_analysis.signature_debug
        IN /\ dbg.fallback_text_layout > 0 => dbg.widgets = 0 /\ dbg.digital = 0
           /\ r.signature_analysis.signature_count
                 = dbg.widgets + dbg.digital + dbg.fallback_text_layout

\* A profile in which the layout of the pages shows a signature line, and a
\* widget or a digital signature kept the fallback from counting it.
C5_Witness ==
    \E r \in RunResults :
        /\ Succeeded(r)
        /\ r.signature_analysis.signature_debug.widgets
             + r.signature_analysis.signature_debug.digital > 0
        /\ r.signature_analysis.signature_debug.fallback_text_layout = 0
        /\ estimate_text_signatures(doc, extract_text(doc)).n > 0

\* C7: whenever the document decodes, every run returns status success with
\* both scores, whichever lookup of a page, a widget or the digital
\* signature reader fails.
C7_DecodedMeansSuccess ==
    \A r \in RunResults : Decodes =>
        /\ Succeeded(r)
        /\ r.nigo_score \in 0..100
        /\ r.complexity_score \in 0..100

\* C8: a result with status error carries the analysis id, the locator and
\* the error message and nothing else.
C8_ErrorResultsAreBare ==
    \A r \in AllResults : r.status = "error" =>
        DOMAIN r \subseteq {"analysis_id", "url", "status", "error", "error_message"}

\* The findings the rules give for the widgets whose attributes can be read.
ReadableWidgetFindings ==
    UNION {Range(WidgetFindings(i, doc.pages[i], doc.pages[i].widgets[k])) :
             <<i, k>> \in {<<i, k>> \in (1..Len(doc.pages)) \X (1..4) :
                             /\ k <= Len(doc.pages[i].widgets)
                             /\ ~doc.pages[i].widgets[k].broken}}

SysErrFindings(r) ==
    SelectSeq(r.nigo_risks, LAMBDA f : f.rule_id = "SYS-ERR")

StatedTermsTenths(in) ==
    LET x == in.extra
        distinct == Cardinality({x.roles[i] : i \in 1..Len(x.roles)})
        third == Len(x.third_party_roles)
        page_term == IF in.pages >= 5 THEN 100 ELSE 20 * in.pages
        field_term == IF in.fields.total >= 50 THEN 150 ELSE 3 * in.fields.total
        role_term == IF distinct >= 6 THEN 180 ELSE 30 * distinct
        radio_term == IF x.radio_groups = 0 THEN 0
                      ELSE IF x.radio_groups >= 4 THEN 60
                      ELSE 20 + 10 * x.radio_groups
    IN  page_term + field_term
      + (IF in.sigs.signature_count > 0 THEN 40 ELSE 0)
      + (IF in.sigs.witness_signature_count > 0 THEN 100 ELSE 0)
      + (IF in.sigs.notarized = "Yes" THEN 120 ELSE 0)
      + role_term
      + (CASE third = 0 -> 0 [] third = 1 -> 40 [] third = 2 -> 80 [] OTHER -> 120)
      + (IF {x.third_party_roles[i] : i \in 1..Len(x.third_party_roles)}
              \cap {"Physician", "Attorney", "Financial Advisor"} # {}
         THEN 40 ELSE 0)
      + radio_term
      + (CASE x.dependencies = 0 -> 0 [] x.dependencies = 1 -> 10 [] OTHER -> 30)
      + (IF x.deadlines >= 1 THEN 20 ELSE 0)
      + (IF x.domain_mismatch THEN 20 ELSE 0)

\* The terms whose amounts the formula leaves open: attachment keyword and
\* attachment patterns, interactive logic, PII weights, graphics density and
\* the dynamic-form hint, in tenths.
OpenTermsTenths(in) ==
    LET x == in.extra
    IN  (IF TextHasWord(in.text, "attach") THEN 30 ELSE 0)
      + (IF x.attachments_req = <<>> THEN 0
         ELSE 10 * Min(8, 2 + 2 * Len(x.attachments_req)))
      + (IF x.has_js THEN 40 ELSE 0)
      + (IF x.has_js /\ x.radio_groups >= 2 THEN 30 ELSE 0)
      + 10 * PiiComplexity(x.pii, 1)
      + (IF x.gfx.drawings_per_page >= 3000 THEN 40
         ELSE IF x.gfx.drawings_per_page >= 1500 THEN 30
         ELSE IF x.gfx.drawings_per_page >= 500 THEN 10 ELSE 0)
      + (IF x.gfx.images_per_page >= 200 THEN 30
         ELSE IF x.gfx.images_per_page >= 100 THEN 10 ELSE 0)
      + (IF x.xfa_hint THEN 40 ELSE 0)

\* C11: calculate_complexity is the sum of the stated terms, with their
\* amounts and caps, and of the remaining terms, clamped to 0..100 (the score
\* is the whole points of the clamped sum).
C11_ComplexityFormula ==
    scoreOut.kind = "complexity" =>
        scoreOut.complexity_score =
            Max(0, Min(1000, StatedTermsTenths(scoreIn) + OpenTermsTenths(scoreIn))) \div 10

\* C11's case: two third parties, one of them an Attorney, scored below the
\* clamp.
C11_Witness ==
    /\ scoreOut.kind = "complexity"
    /\ scoreIn.extra.third_party_count = 2
    /\ "Attorney" \in Range(scoreIn.extra.third_party_roles)
    /\ scoreOut.complexity_score < 100

\* A document of 40 fields with no signature, no PII and no other signal.
FortyQuietFields(in) ==
    /\ in.kind = "complexity"
    /\ in.fields.total = 40
    /\ in.text = <<>>
    /\ in.sigs.signature_count = 0
    /\ in.sigs.witness_signature_count = 0
    /\ in.sigs.notarized = "No"
    /\ \A k \in DOMAIN in.extra.pii : ~in.extra.pii[k]
    /\ in.extra.roles = <<>> /\ in.extra.attachments_req = <<>>
    /\ in.extra.third_party_roles = <<>> /\ in.extra.third_party_count = 0
    /\ in.extra.radio_groups = 0 /\ ~in.extra.has_js /\ ~in.extra.xfa_hint
    /\ in.extra.gfx.images_per_page = 0 /\ in.extra.gfx.drawings_per_page = 0
    /\ in.extra.deadlines = 0 /\ in.extra.dependencies = 0
    /\ ~in.extra.domain_mismatch

\* C12: for 40 fields, no signature, no PII and no other signal, the
\* complexity score is the page term plus the field term (12) and is below
\* 25 for every page count.
C12_FortyFieldsStayLow ==
    scoreOut.kind = "complexity" /\ FortyQuietFields(scoreIn) =>
        /\ scoreOut.complexity_score = Min(2 * scoreIn.pages, 10) + 12
        /\ scoreOut.complexity_score < 25

\* C12's case: such a document long enough for the page term to be at its
\* cap, scored 22.
C12_Witness ==
    /\ scoreOut.kind = "complexity"
    /\ FortyQuietFields(scoreIn)
    /\ scoreIn.pages > 5
    /\ scoreOut.complexity_score = 22

\* ------------------------------------------------------------------------
\* Claims about concurrent analyses (SpecService)
\* ------------------------------------------------------------------------

\* What analyze_form returns for a request served alone: self.current_url is
\* the request's own URL throughout the call.
ResultAlone(req) ==
    IF req.download = "ok"
    THEN [url |-> req.url,
          status |-> "success",
          form_title |-> extract_form_title(req, req.url),
          entity_name |-> form_entity_name_financial(req, req.url)]
    ELSE [url |-> req.url,
          status |-> "error",
          error_message |-> "download failed",
          entity_name |-> extract_entity_name_from_url(req.url.host)]

\* C13: the result of an analysis that runs concurrently with the analysis of
\* another document equals the result of the same analysis run alone; no
\* analysis reads state written by another.
C13_ConcurrentEqualsAlone ==
    \A t \in DOMAIN threads :
        threads[t].pc = "done" => threads[t].result = ResultAlone(threads[t].req)

\* ------------------------------------------------------------------------
\* Claims about the detectors on their own (SpecDetectors)
\* ------------------------------------------------------------------------

\* The positions of a raw text that belong to a line break inside a word: a
\* hyphen after a word character, followed by whitespace that holds a
\* newline and then by a word character, and that whitespace.
BreakPositions(raw) ==
    {k \in 1..Len(raw) :
        \E h \in 2..k :
            /\ raw[h] = "-"
            /\ IsWordChar(raw[h - 1])
            /\ k <= RunEnd(raw, h + 1)
            /\ HasNewline(raw, h + 1, RunEnd(raw, h + 1))
            /\ RunEnd(raw, h + 1) < Len(raw)
            /\ IsWordChar(raw[RunEnd(raw, h + 1) + 1])}

RECURSIVE WithoutPositions(_, _, _)
WithoutPositions(t, drop, i) ==
    IF i > Len(t) THEN <<>>
    ELSE (IF i \in drop THEN <<>> ELSE <<t[i]>>) \o WithoutPositions(t, drop, i + 1)

\* The normalized text as stated: lower case, every word broken over a line
\* rejoined, every run of whitespace one space.
StatedNormalizedText(raw) ==
    LET joined == WithoutPositions(raw, BreakPositions(raw), 1)
        repeated == {i \in 2..Len(joined) :
                        IsSpaceChar(joined[i]) /\ IsSpaceChar(joined[i - 1])}
        spaced == WithoutPositions(joined, repeated, 1)
    IN [i \in 1..Len(spaced) |->
          IF IsSpaceChar(spaced[i]) THEN " " ELSE LowerChar(spaced[i])]

\* The normalized text is lower case and has no two whitespace characters
\* in a row, and the empty text stays empty.
NormalizedIsLowerAndSingleSpaced ==
    detOut.kind = "normalized" =>
        /\ \A i \in 1..Len(detOut.text) : detOut.text[i] = LowerChar(detOut.text[i])
        /\ \A i \in 2..Len(detOut.text) :
              ~(IsSpaceChar(detOut.text[i]) /\ IsSpaceChar(detOut.text[i - 1]))
        /\ detIn.raw = <<>> => detOut.text = <<>>

\* C14: for every raw text, the empty one included, the normalized text is
\* lower case, has no two whitespace characters in a row, and has every word
\* that a hyphen and a newline broke rejoined; the empty text yields the
\* empty text.
C14_NormalizedText ==
    /\ NormalizedIsLowerAndSingleSpaced
    /\ detOut.kind = "normalized" => detOut.text = StatedNormalizedText(detIn.raw)

\* The taxonomy of field classes, in the order of the rule table, and the
\* words of each rule as the table's description gives them.
StatedClassRules ==
    <<<<"ssn", {<<"ssn">>, <<"social", "security">>}>>,
      <<"tin", {<<"tin">>, <<"taxpayer">>}>>,
      <<"ein", {<<"ein">>, <<"employer", "id">>, <<"employer", "identification">>}>>,
      <<"dob", {<<"date", "of", "birth">>, <<"dob">>}>>,
      <<"date", {<<"date">>}>>,
      <<"phone", {<<"phone">>, <<"telephone">>, <<"cell">>}>>,
      <<"email", {<<"email">>, <<"e-mail">>, <<"e", "mail">>}>>,
      <<"zip", {<<"zip">>, <<"postal">>}>>,
      <<"state", {<<"state">>, <<"prov">>, <<"province">>}>>,
      <<"routing", {<<"routing">>, <<"aba">>}>>,
      <<"account", {<<"account">>, <<"acct">>}>>,
      <<"amount", {<<"amount">>, <<"usd">>}>>,
      <<"signature", {<<"signature">>}>>,
      <<"notary", {<<"notary">>}>>,
      <<"witness", {<<"witness">>}>>>>

Taxonomy == {StatedClassRules[k][1] : k \in 1..Len(StatedClassRules)} \cup {"text"}

NarrowClasses == {"ssn", "tin", "ein", "dob"}

GenericClasses == {"date", "zip", "state"}

\* The lower-cased words of the name, tooltip and label of the field handed
\* to the classifier.
FieldHay == LowerText(detIn.name \o detIn.alt \o detIn.label)

RuleMatches(k) == Matches(FieldHay, StatedClassRules[k][2])

\* C15: the classifier returns the class of the first rule, in table order,
\* that matches the combined name, tooltip and label, and "text" when no
\* rule matches; the class is always one of the taxonomy; a field that
\* matches a narrow rule (ssn, tin, ein, dob) and a generic one (date, zip,
\* state) gets a narrow class.
C15_FirstRuleWins ==
    detOut.kind = "field_class" =>
        /\ detOut.klass \in Taxonomy
        /\ (detOut.klass = "text") = (\A k \in 1..Len(StatedClassRules) : ~RuleMatches(k))
        /\ \A k \in 1..Len(StatedClassRules) :
              (RuleMatches(k) /\ \A j \in 1..(k - 1) : ~RuleMatches(j))
                  => detOut.klass = StatedClassRules[k][1]
        /\ ((\E k \in 1..Len(StatedClassRules) :
                 StatedClassRules[k][1] \in NarrowClasses /\ RuleMatches(k))
             /\ (\E k \in 1..Len(StatedClassRules) :
                 StatedClassRules[k][1] \in GenericClasses /\ RuleMatches(k)))
              => detOut.klass \in NarrowClasses

\* A field whose name and tooltip only together read "date of birth" was
\* classified as dob although the date rule matches it too.
C15_Witness ==
    /\ detOut.kind = "field_class"
    /\ detIn.name = <<"Date", "of">>
    /\ detIn.alt = <<"birth">>
    /\ Matches(FieldHay, {<<"date">>})
    /\ detOut.klass = "dob"

\* ------------------------------------------------------------------------
\* Claims about the NIGO rules and the signature estimate (Spec)
\* ------------------------------------------------------------------------

\* The class the pass infers for widget k of page i.
WidgetClass(i, k) ==
    infer_field_class(doc.pages[i].widgets[k].field_name,
                      doc.pages[i].widgets[k].tooltip,
                      label_near_widget(doc.pages[i], doc.pages[i].widgets[k]))

\* The widgets of page i whose attributes can be read.
ReadableWidgets(i) ==
    {k \in 1..Len(doc.pages[i].widgets) : ~doc.pages[i].widgets[k].broken}

\* The widgets of page i of class c that should be required and are not.
UnrequiredWidgets(i, c) ==
    {k \in ReadableWidgets(i) :
        /\ WidgetClass(i, k) = c
        /\ c \in EXPECTED_REQUIRED
        /\ ~doc.pages[i].widgets[k].is_required}

FindingsOf(r, rule_id) == SelectSeq(r.nigo_risks, LAMBDA f : f.rule_id = rule_id)

RequiredFindings(r, i, c) ==
    SelectSeq(FindingsOf(r, "REQ-001"), LAMBDA f : f.page = i /\ f.field_class = c)

NoBrokenWidget == \A i \in 1..Len(AllWidgets(doc)) : ~AllWidgets(doc)[i].broken

RequiredRuleOn(r) ==
    /\ \A n \in 1..Len(FindingsOf(r, "REQ-001")) :
          /\ FindingsOf(r, "REQ-001")[n].severity = "high"
          /\ FindingsOf(r, "REQ-001")[n].page \in 1..Len(doc.pages)
    /\ \A i \in 1..Len(doc.pages) : \A c \in Taxonomy :
          Len(RequiredFindings(r, i, c)) = Cardinality(UnrequiredWidgets(i, c))

\* In a document all of whose widgets can be read, every widget that should
\* be required and is not has its one REQ-001 finding, and no other widget
\* has one.
RequiredRuleWhenAllReadable ==
    \A r \in RunResults : (Succeeded(r) /\ NoBrokenWidget) => RequiredRuleOn(r)

\* C18: for every widget the findings hold exactly one REQ-001 finding, of
\* severity high and with the widget's page and inferred class, when the
\* class is one that should be required and the widget is not marked
\* required, and none otherwise.
C18_RequiredRule ==
    \A r \in RunResults : Succeeded(r) => RequiredRuleOn(r)

\* The widgets of page i of inferred class signature whose nearby label
\* does not hold the word "date".
UndatedSignatureWidgets(i) ==
    {k \in ReadableWidgets(i) :
        /\ WidgetClass(i, k) = "signature"
        /\ ~Matches(LowerText(label_near_widget(doc.pages[i], doc.pages[i].widgets[k])),
                    {<<"date">>})}

SignatureDateRuleOn(r) ==
    /\ \A n \in 1..Len(FindingsOf(r, "SIG-002")) :
          FindingsOf(r, "SIG-002")[n].severity = "low"
    /\ \A i \in 1..Len(doc.pages) :
          Len(SelectSeq(FindingsOf(r, "SIG-002"), LAMBDA f : f.page = i))
              = Cardinality(UndatedSignatureWidgets(i))

\* In a document all of whose widgets can be read, the signature fields
\* without a "date" label nearby are the ones with a SIG-002 finding.
SignatureDateRuleWhenAllReadable ==
    \A r \in RunResults : (Succeeded(r) /\ NoBrokenWidget) => SignatureDateRuleOn(r)

\* C19: a signature field has a SIG-002 finding, of severity low, exactly
\* when its nearby label does not hold the word "date".
C19_SignatureDateRule ==
    \A r \in RunResults : Succeeded(r) => SignatureDateRuleOn(r)

\* ------------------------------------------------------------------------
\* Claims about the layout estimate of signatures (SpecDetectors)
\* ------------------------------------------------------------------------

LayoutEstimated == detOut.kind = "text_signatures" /\ ~detOut.est.raised

\* C20: the layout estimate of the signature count is at most 2 for every
\* page of the document and at most 5 in all, however many signature blocks
\* of a page have a line or an underscore run; the estimate taken from the
\* text when the document cannot be opened is at most 2.
C20_LayoutEstimateCaps ==
    LayoutEstimated =>
        /\ detOut.est.n \in 0..5
        /\ detIn.opens => detOut.est.n <= 2 * Len(detIn.pages)
        /\ ~detIn.opens => detOut.est.n <= 2

\* Three pages with three signature lines each were estimated at 5.
C20_Witness ==
    /\ LayoutEstimated
    /\ detIn.opens
    /\ Len(detIn.pages) = 3
    /\ \A i \in 1..3 : Len(WordBlocks(detIn.pages[i].blocks, "signature")) = 3
    /\ detOut.est.n = 5

\* A document that cannot be opened, with three mentions of signature in its
\* text, was estimated at 2.
C20_DegradedWitness ==
    /\ LayoutEstimated
    /\ ~detIn.opens
    /\ CountWord(detIn.text, "signature") = 3
    /\ detOut.est.n = 2

\* ------------------------------------------------------------------------
\* Claims about the witness estimate (SpecDetectors)
\* ------------------------------------------------------------------------

\* The blocks of a page with the word that the stated criterion counts: a
\* horizontal line longer than 60 in the band of the block, or a run of 5
\* or more underscores in its text.
StatedCountedBlocks(page, word) ==
    {n \in 1..Len(WordBlocks(page.blocks, word)) :
        \/ CloseLine(WordBlocks(page.blocks, word)[n].rect, HorizontalLines(page.drawings))
        \/ \E i \in 1..Len(WordBlocks(page.blocks, word)[n].text) :
              UnderscoreRun(WordBlocks(page.blocks, word)[n].text[i]) >= 5}

StatedWitnessCount(pages) ==
    Min(4, SumOver([i \in 1..Len(pages) |->
                      Min(2, Cardinality(StatedCountedBlocks(pages[i], "witness")))], 1))

WitnessEstimated == detOut.kind = "witness_signatures" /\ ~detOut.est.raised

\* The caps of the witness estimate: 2 for every page, 4 in all.
WitnessEstimateCaps ==
    WitnessEstimated =>
        /\ detOut.est.n \in 0..4
        /\ detIn.opens => detOut.est.n <= 2 * Len(detIn.pages)

\* C21: the witness count of a document is the number of its "witness"
\* blocks with a horizontal line longer than 60 in their band or a run of 5
\* or more underscores in their text, at most 2 for a page and at most 4 in
\* all.
C21_WitnessCount ==
    /\ WitnessEstimateCaps
    /\ (WitnessEstimated /\ detIn.opens) => detOut.est.n = StatedWitnessCount(detIn.pages)

\* ------------------------------------------------------------------------
\* Claims about the third-party finding (Spec)
\* ------------------------------------------------------------------------

\* The places of the findings of a rule in the findings list of r.
PlacesOf(r, rule_id) == {n \in 1..Len(r.nigo_risks) : r.nigo_risks[n].rule_id = rule_id}

PerFieldRules == {"REQ-001", "FMT-001", "SIG-002", "COND-003"}

\* C22: a successful result holds exactly one THRD-001 finding, of severity
\* medium, when its list of third-party roles is not empty and none when it
\* is; the list has no duplicate and no core signer, the evidence has at
\* most 6 snippets, and THRD-001 is after every per-field finding and after
\* ROLE-001.
C22_ThirdPartyFinding ==
    \A r \in RunResults : Succeeded(r) =>
        /\ Cardinality(PlacesOf(r, "THRD-001")) = (IF r.third_party_roles # <<>> THEN 1 ELSE 0)
        /\ \A n \in PlacesOf(r, "THRD-001") :
              /\ r.nigo_risks[n].severity = "medium"
              /\ \A k \in 1..Len(r.nigo_risks) :
                    r.nigo_risks[k].rule_id \in PerFieldRules \cup {"ROLE-001"} => k < n
        /\ NoRepeat(r.third_party_roles)
        /\ Range(r.third_party_roles) \cap CORE_SIGNER_TERMS = {}
        /\ Len(r.third_party_evidence) <= 6

\* A result with a per-field finding, ROLE-001 and THRD-001, and one whose
\* text names seven third parties and keeps six snippets.
C22_Witness ==
    \E r \in RunResults :
        /\ Succeeded(r)
        /\ PlacesOf(r, "THRD-001") # {}
        /\ PlacesOf(r, "ROLE-001") # {}
        /\ PlacesOf(r, "REQ-001") # {}
        /\ Len(r.third_party_roles) = 7
        /\ Len(r.third_party_evidence) = 6

\* ------------------------------------------------------------------------
\* Claims about the rate limiter (SpecLimiter) and download_pdf (SpecDownload)
\* ------------------------------------------------------------------------

\* The requests sent to a domain within the window that ends now.
SentInWindow(d) ==
    {i \in 1..Len(sent[d]) : now - sent[d][i] < DEFAULT_RATE_LIMIT.window}

\* C23: no more than max_requests (5) requests are sent to a domain within
\* any window of 60 seconds, the retries of download_pdf and the request of
\* a caller that was told to wait included.
C23_AtMostFivePerWindow ==
    \A d \in Domains : Cardinality(SentInWindow(d)) <= DEFAULT_RATE_LIMIT.max_requests

BackoffOf(limits, d) == limits[d].backoff_factor

\* What one call leaves of the backoff factors: a domain newly tracked has
\* 1; rate_limit_exceeded doubles the factor of its domain up to 10 and
\* changes nothing for a domain that is not tracked; no factor decreases
\* unless clear_rate_limits empties the registry; a call for one domain
\* leaves every other domain as it is.
BackoffStep ==
    /\ \A d \in DOMAIN domain_rate_limits' \ DOMAIN domain_rate_limits :
          BackoffOf(domain_rate_limits', d) = 1
    /\ \A d \in DOMAIN domain_rate_limits' \cap DOMAIN domain_rate_limits :
          /\ BackoffOf(domain_rate_limits', d) >= BackoffOf(domain_rate_limits, d)
          /\ BackoffOf(domain_rate_limits', d) <= 10
          /\ (downloading'.last = "rate_limit_exceeded" /\ downloading'.domain = d)
                => BackoffOf(domain_rate_limits', d)
                     = Min(2 * BackoffOf(domain_rate_limits, d), 10)
    /\ (downloading'.last = "rate_limit_exceeded"
            /\ downloading'.domain \notin DOMAIN domain_rate_limits)
          => domain_rate_limits' = domain_rate_limits
    /\ downloading'.last # "clear_rate_limits"
          => \A d \in DOMAIN domain_rate_limits :
                /\ d \in DOMAIN domain_rate_limits'
                /\ d # downloading'.domain => domain_rate_limits'[d] = domain_rate_limits[d]
    /\ downloading'.last = "clear_rate_limits" => domain_rate_limits' = NoLimits

\* C26: the backoff factor of a tracked domain starts at 1.0, doubles on
\* each rate_limit_exceeded call, never exceeds 10.0 and never decreases
\* until clear_rate_limits resets all domains; rate_limit_exceeded on a
\* domain that is not tracked changes nothing, and a call for one domain
\* never changes the state of another.
C26_BackoffFactor == [][BackoffStep]_vars

\* The factor of one domain is at its cap of 10 after rate_limit_exceeded,
\* next to a tracked domain whose factor is still 1.
C26_Witness ==
    /\ downloading.last = "rate_limit_exceeded"
    /\ downloading.domain = "a.example"
    /\ DOMAIN domain_rate_limits = Domains
    /\ BackoffOf(domain_rate_limits, "a.example") = 10
    /\ BackoffOf(domain_rate_limits, "b.example") = 1

Retried == {"429", "429_date", "429_negative", "500", "network_error"}

\* Whatever the responses, a call sends at most 5 requests and ends by
\* returning a PDF or by raising.
DownloadEndsProperly ==
    /\ downloading.requests <= max_retries
    /\ downloading.pc # "returned_none"
    /\ downloading.pc = "returned" => downloading.last = "pdf"
    /\ downloading.last \in {"not_pdf", "broken_pdf"} => downloading.pc = "raised"

\* C30: download_pdf sends at most 5 requests for a call and ends by
\* returning a stream that starts with %PDF or by raising, never by
\* returning nothing; a 429, another status but 200 and a network error are
\* retried until the fifth attempt and then raised, and a 200 response that
\* is no PDF is raised at once.
C30_DownloadRetries ==
    /\ DownloadEndsProperly
    /\ (downloading.last \in Retried /\ downloading.requests < max_retries)
          => downloading.pc = "attempt"
    /\ (downloading.last \in Retried /\ downloading.requests = max_retries)
          => downloading.pc = "raised"

\* C24: with the built-in brand registry host_domain_info never returns
\* mismatch = true, whatever the URL, the issuer guess, the text and the
\* metadata.
C24_NoMismatchWithBuiltins ==
    (HostReturned /\ hostIn.brand_map = BuiltinBrands) => ~hostOut.mismatch

\* With the built-in registry a government issuer scores 55 or more on a
\* host outside the top-level domain gov, without the root override.
C24_Witness ==
    /\ HostReturned
    /\ hostIn.brand_map = BuiltinBrands
    /\ GovIssuerOffGovTld
    /\ hostOut.issuer_domains_matched # <<>>
    /\ hostOut.confidence >= 55
    /\ ~OverrideApplied
    /\ ~hostOut.mismatch

\* ------------------------------------------------------------------------
\* Claims about the widget rules (SpecDetectors)
\* ------------------------------------------------------------------------

WidgetChecked == detOut.kind = "widget_findings"

SignatureDateFindings == SelectSeq(detOut.findings, LAMBDA f : f.rule_id = "SIG-002")

DatedSignatureIsDate ==
    /\ WidgetChecked
    /\ detIn.name = <<"Signature">>
    /\ detOut.label = <<"Date">>
    /\ detOut.klass = "date"
    /\ SignatureDateFindings = <<>>

\* ------------------------------------------------------------------------
\* Claims about the list of analysed forms (SpecRoutes)
\* ------------------------------------------------------------------------

\* No handler is between its insert and its assignment of the cut list.
NoSaveInProgress == \A h \in Handlers : handlers[h].pc \notin {"slice", "store"}

\* The list holds no error result and is ordered by insertion, the newest
\* first.
FormsOrdered ==
    /\ \A i \in 1..Len(analyzed_forms) : analyzed_forms[i].status # "error"
    /\ \A i \in 1..(Len(analyzed_forms) - 1) :
          analyzed_forms[i].id > analyzed_forms[i + 1].id

\* Outside a save the list holds at most 500 results.
FormsBounded == NoSaveInProgress => Len(analyzed_forms) <= KEPT_FORMS

\* The successful results of the request of handler hd.
Successes(hd) == {r \in Range(hd.batch_results) : r.status # "error"}

\* A request that completes in this step finds its successful results in
\* the list.
SavedOnCompletion ==
    \A h \in Handlers :
        (handlers[h].pc # "responded" /\ handlers'[h].pc = "responded")
            => Successes(handlers'[h]) \subseteq Range(analyzed_forms')

\* C27: after any interleaving of /analyze and /batch_analyze requests the
\* list holds at most 500 results and none of status error, the most
\* recent first, and a successful analysis is in the list when its request
\* completes.
C27_AnalyzedForms == [](FormsOrdered /\ FormsBounded) /\ [][SavedOnCompletion]_vars

\* Under every interleaving the list is ordered, free of error results and,
\* outside a save, no longer than 500.
FormsOrderedAndBounded == [](FormsOrdered /\ FormsBounded)

\* The one request received so far finds its successful results in the list
\* when it completes.
SavedWhenServedAlone == [][route_log.requests = 1 => SavedOnCompletion]_vars

\* ------------------------------------------------------------------------
\* Claims about the crawlers (SpecCrawl)
\* ------------------------------------------------------------------------

CrawlReturned == crawl.pc = "returned"

\* C28: /crawl never returns more than max_pdfs URLs, the requested value
\* capped at 50, and never the same URL twice, whichever crawler produced
\* the list.
C28_CrawlResponse ==
    CrawlReturned =>
        /\ Len(crawl.response) <= crawl.max_pdfs
        /\ NoRepeat(crawl.response)

\* What holds of the response by crawler: WebCrawler's list is capped and
\* free of repeats, the list of the route's own loop is capped, the list of
\* the credit-union crawler is free of repeats.
CrawlResponseByCrawler ==
    /\ (CrawlReturned /\ crawl.source = "web")
          => Len(crawl.response) <= crawl.max_pdfs /\ NoRepeat(crawl.response)
    /\ (CrawlReturned /\ crawl.source = "enhanced")
          => Len(crawl.response) <= crawl.max_pdfs
    /\ (CrawlReturned /\ crawl.source = "cu") => NoRepeat(crawl.response)

CrawlEnded == crawl.pc \in {"returned", "returned_pdfs"}

\* No URL is fetched twice and none deeper than max_depth.
FetchedOnceWithinDepth == NoRepeat(crawl.fetched) /\ crawl.deepest <= crawl.max_depth

\* crawl_playwright fetches the start URL only when include_subpages is off
\* or max_depth is 0, and URLs of the start URL's domain otherwise.
PlaywrightStaysOnSite ==
    crawl.source = "playwright" =>
        /\ \A u \in Range(crawl.fetched) : Netloc(u) = Netloc(Start)
        /\ (~crawl.include_subpages \/ crawl.max_depth = 0)
              => Range(crawl.fetched) \subseteq {Start}

\* The fetches of a crawl as stated.
CrawlFetches ==
    /\ FetchedOnceWithinDepth
    /\ crawl.source = "web" => Len(crawl.fetched) <= WEB_PAGES
    /\ crawl.source = "cu" => Len(crawl.fetched) <= crawl.max_pdfs
    /\ PlaywrightStaysOnSite

\* More than any queue of a crawl holds.
QueueBound == 50

\* What is left of a crawl: the URLs not visited yet, then the queue.
Remaining(c) == Cardinality(Urls \ c.visited) * QueueBound + Len(c.to_visit)

\* A turn of a crawl loop leaves less of the crawl than there was, so no
\* loop turns for ever.
TurnCountsDown ==
    (crawl.pc \in {"cu", "web", "enhanced", "playwright"} /\ crawl'.pc = crawl.pc)
        => /\ Remaining(crawl') < Remaining(crawl)
           /\ Len(crawl'.to_visit) < QueueBound

\* C29: every crawl loop ends, on any link graph: each URL is fetched at
\* most once and none deeper than max_depth, WebCrawler fetches at most 100
\* pages and CreditUnionFormCrawler.crawl at most max_pages, and
\* crawl_playwright fetches the start URL only when include_subpages is off
\* or max_depth is 0, and same-domain links only otherwise.
C29_CrawlLoops == []CrawlFetches /\ [][TurnCountsDown]_vars

\* Every crawl loop ends.
CrawlLoopsEnd == [][TurnCountsDown]_vars

\* The loops of WebCrawler, of the route and of crawl_playwright fetch as
\* stated.
OtherCrawlersFetch == crawl.source # "cu" => CrawlFetches

====
